---- MODULE Spec2Model ----
(***************************************************************************)
(* A model of the JoshuaLim25/db storage engine: the in-memory B+Tree      *)
(* (btree/btree.go, btree/node.go, btree/iterator.go), the page manager,   *)
(* the disk-backed tree and the table layer above it.                      *)
(*                                                                         *)
(* Keys and values are opaque byte strings in the source, ordered by       *)
(* bytes.Compare.  Here a non-nil key is a positive integer (its rank in   *)
(* the byte order) and a value is a positive integer; Nil stands for Go's  *)
(* nil (a nil slice, a nil pointer).  Go indexes from 0: every index below *)
(* is the source's 0-based index, and slot i of a Go slice is element i+1  *)
(* of the sequence that models it.                                         *)
(***************************************************************************)
EXTENDS Integers, Sequences, FiniteSets, TLC

\* ------------------------------------------------------------------ bounds
\* Spec: keys 1..MaxKey and values 1..MaxVal are offered to Set and Delete.
MaxKey == 7
MaxVal == 2
\* At most MaxDeletes Delete calls are made on one tree.
MaxDeletes == 2
\* SpecScan: the values offered to Set before a scan.
MaxScanVal == 1
\* SpecLoad: keys 1..LoadKeys (enough for five leaves under one internal
\* node, so that the node splits) and values 1..MaxLoadVal.
LoadKeys == 12
MaxLoadVal == 1
MaxLoadDeletes == 1
\* SpecPM and SpecDisk: page ids stay below MaxPages, the free list holds at
\* most MaxFree entries.
MaxPages == 3
MaxFree == 2
\* SpecDisk: keys 1..MaxDiskKey (one more than a leaf holds) and values
\* 1..MaxDiskVal; at most MaxDiskDeletes keys are deleted at a time and at
\* most MaxNodes node objects are created.
MaxDiskKey == 5
MaxDiskVal == 1
MaxDiskDeletes == 1
MaxNodes == 2
\* SpecReopen: keys 1..MaxReopenKey; the file is opened at most MaxOpens times.
MaxReopenKey == 2
MaxLongKey == 2
MaxBufLen == 7
MaxOpens == 2
\* SpecTable: the goroutines, and the keys and values they use.
NumGoroutines == 2
MaxTableKey == 2
MaxTableVal == 1
\* SetData is called with at most MaxSlack bytes, and with a length at most
\* MaxSlack away from the capacity of a page
MaxSlack == 1
\* the keys and values of the nodes given to SerializeNode are the empty
\* byte string and the byte strings 1..MaxCodecKey, 1..MaxCodecVal
MaxCodecKey == 2
MaxCodecVal == 1
\* WritePage is given pages with 1..MaxWriteLen bytes of data
MaxWriteLen == 2
\* at most MaxWrites page writes are asked for where WritePage is called
MaxWrites == 3
\* a Database has tables named 1..MaxTables with keys 1..MaxDBKey and values
\* 1..MaxDBVal, and CreateTable allocates at most MaxCreates pages; a table used
\* on its own has keys 1..MaxRowKey and values 1..MaxRowVal; at most
\* MaxRowDeletes Delete calls are made
MaxTables == 2
MaxCreates == 3
MaxGoTables == 1
MaxGoCreates == 1
MaxGoNodes == 2
MaxSaveLen == 2
MaxSaves == 2
MaxDBKey == 1
MaxDBVal == 1
MaxRowKey == 5
MaxRowVal == 2
MaxRowDeletes == 1

\* --------------------------------------------------------------- constants
Nil == 0
MaxKeys == 4
MinKeys == MaxKeys \div 2
LeafNode == 0
InternalNode == 1

Min(S) == CHOOSE x \in S : \A y \in S : x <= y

\* The map m with key bound to val (a Go map assignment m[key] = val).
\* F(v), with v worked out once.
With(v, F(_)) == CHOOSE y \in {F(x) : x \in {v}} : TRUE

Put(m, key, val) == [k \in DOMAIN m \cup {key} |-> IF k = key THEN val ELSE m[k]]

\* ------------------------------------------------------------ btree/node.go
NilSlots(n) == [i \in 1..n |-> Nil]

NewLeafNode ==
  [Type |-> LeafNode, Keys |-> NilSlots(MaxKeys), Values |-> NilSlots(MaxKeys),
   Children |-> <<>>, Next |-> Nil, Parent |-> Nil, NumKeys |-> 0]

NewInternalNode ==
  [Type |-> InternalNode, Keys |-> NilSlots(MaxKeys), Values |-> <<>>,
   Children |-> NilSlots(MaxKeys + 1), Next |-> Nil, Parent |-> Nil, NumKeys |-> 0]

IsLeaf(n) == n.Type = LeafNode

IsFull(n) == n.NumKeys = MaxKeys

IsUnderflow(n) == IF n.Parent = Nil THEN FALSE ELSE n.NumKeys < MinKeys

KeyAt(n, index) ==
  IF index < 0 \/ index >= n.NumKeys THEN Nil ELSE n.Keys[index + 1]

ValueAt(n, index) ==
  IF ~IsLeaf(n) \/ index < 0 \/ index >= n.NumKeys THEN Nil ELSE n.Values[index + 1]

ChildAt(n, index) ==
  IF IsLeaf(n) \/ index < 0 \/ index > n.NumKeys THEN Nil ELSE n.Children[index + 1]

\* ----------------------------------------------------------- btree/btree.go
\* A tree value t is [nodes, root, size, fault]: nodes is the heap of Node
\* objects (a *Node is an index into it, Nil the nil pointer), fault is set
\* when the call panicked (index out of range on a nil slice).

New == [nodes |-> <<NewLeafNode>>, root |-> 1, size |-> 0, fault |-> FALSE]

findChildIndexInclusive(node, key) ==
  LET hits == {i \in 0..(node.NumKeys - 1) : key <= KeyAt(node, i)}
  IN  IF hits = {} THEN node.NumKeys ELSE Min(hits)

findChildIndex(node, key) ==
  LET hits == {i \in 0..(node.NumKeys - 1) : key < KeyAt(node, i)}
  IN  IF hits = {} THEN node.NumKeys ELSE Min(hits)

findKeyIndex(node, key) ==
  LET hits == {i \in 0..(node.NumKeys - 1) :
                 KeyAt(node, i) # Nil /\ key <= KeyAt(node, i)}
  IN  IF hits = {} THEN node.NumKeys ELSE Min(hits)

RECURSIVE descend(_, _, _)
descend(nodes, current, key) ==
  IF current # Nil /\ ~IsLeaf(nodes[current])
  THEN LET child == ChildAt(nodes[current], findChildIndex(nodes[current], key))
       IN  IF child = Nil THEN current ELSE descend(nodes, child, key)
  ELSE current

findLeaf(t, key) == descend(t.nodes, t.root, key)

Get(t, key) ==
  LET leaf  == t.nodes[findLeaf(t, key)]
      index == findKeyIndex(leaf, key)
  IN  IF index >= 0 /\ index < leaf.NumKeys /\ KeyAt(leaf, index) = key
      THEN [val |-> ValueAt(leaf, index), ok |-> TRUE]
      ELSE [val |-> Nil, ok |-> FALSE]

Size(t) == t.size

\* A new root whose two children are taken in the wrong order.
NewRootOverSwapped(t, left, key, right) ==
  LET rootId  == Len(t.nodes) + 1
      newRoot == [NewInternalNode EXCEPT
                    !.Keys[1] = key, !.Children[1] = right,
                    !.Children[2] = left, !.NumKeys = 1]
  IN  [t EXCEPT !.nodes = Append([@ EXCEPT ![left].Parent = rootId,
                                          ![right].Parent = rootId], newRoot),
                !.root = rootId]

\* The "create new root" branch shared by splitAndInsert and splitInternal
\* (btree.go 237-247, 345-355): t already holds the new right node at `right`.
NewRootOver(t, left, key, right) ==
  LET rootId  == Len(t.nodes) + 1
      newRoot == [NewInternalNode EXCEPT
                    !.Keys[1] = key, !.Children[1] = left,
                    !.Children[2] = right, !.NumKeys = 1]
  IN  [t EXCEPT !.nodes = Append([@ EXCEPT ![left].Parent = rootId,
                                          ![right].Parent = rootId], newRoot),
                !.root = rootId]

\* splitInternal, on the node value: what stays in node, what moves to newNode.
SplitInternalLeft(node) ==
  LET midIndex == MaxKeys \div 2
  IN  [node EXCEPT
         !.Keys = [p \in 1..MaxKeys |-> IF p - 1 >= midIndex THEN Nil ELSE node.Keys[p]],
         !.Children = [p \in 1..(MaxKeys + 1) |->
                         IF p - 1 > midIndex THEN Nil ELSE node.Children[p]],
         !.NumKeys = midIndex]

SplitInternalRight(node) ==
  LET midIndex == MaxKeys \div 2
      moved    == MaxKeys - midIndex - 1
  IN  [NewInternalNode EXCEPT
         !.Keys = [p \in 1..MaxKeys |->
                     IF p - 1 < moved THEN node.Keys[p + midIndex + 1] ELSE Nil],
         !.Children = [p \in 1..(MaxKeys + 1) |->
                         IF p - 1 = MaxKeys \div 2 THEN node.Children[MaxKeys + 1]
                         ELSE IF p - 1 < moved THEN node.Children[p + midIndex + 1]
                         ELSE Nil],
         !.NumKeys = moved]

RECURSIVE insertIntoParent(_, _, _, _)
RECURSIVE splitInternal(_, _)

insertIntoParent(t, parent, key, rightChild) ==
  LET pn     == t.nodes[parent]
      index  == findKeyIndex(pn, key)
      shifted ==
        [pn EXCEPT
           !.Keys = [p \in 1..MaxKeys |->
                       IF p - 1 = index THEN key
                       ELSE IF p - 1 > index /\ p - 1 <= pn.NumKeys THEN pn.Keys[p - 1]
                       ELSE pn.Keys[p]],
           !.Children = [p \in 1..(MaxKeys + 1) |->
                           IF p - 1 = index + 1 THEN rightChild
                           ELSE IF p - 1 > index + 1 /\ p - 1 <= pn.NumKeys + 1
                                THEN pn.Children[p - 1]
                           ELSE pn.Children[p]],
           !.NumKeys = pn.NumKeys + 1]
      t1 == [t EXCEPT !.nodes = [@ EXCEPT ![rightChild].Parent = parent,
                                           ![parent] = shifted]]
  IN  IF IsFull(shifted) THEN splitInternal(t1, parent) ELSE t1

splitInternal(t, node) ==
  LET n        == t.nodes[node]
      midIndex == MaxKeys \div 2
      newId    == Len(t.nodes) + 1
      newNode  == SplitInternalRight(n)
      middleKey == n.Keys[midIndex + 1]
      adopted  == {newNode.Children[p] : p \in 1..(MaxKeys + 1)} \ {Nil}
      t1 == [t EXCEPT !.nodes =
               Append([i \in 1..Len(t.nodes) |->
                         IF i = node THEN SplitInternalLeft(n)
                         ELSE IF i \in adopted THEN [t.nodes[i] EXCEPT !.Parent = newId]
                         ELSE t.nodes[i]],
                      newNode)]
  IN  IF n.Parent = Nil
      THEN NewRootOver(t1, node, middleKey, newId)
      ELSE insertIntoParent(t1, n.Parent, middleKey, newId)

splitAndInsertCeil(t, leaf, key, val, index) ==
  LET n == t.nodes[leaf]
      midIndex == (MaxKeys + 2) \div 2
      allKeys == [p \in 1..(MaxKeys + 1) |->
                    IF p - 1 < index THEN n.Keys[p]
                    ELSE IF p - 1 = index THEN key ELSE n.Keys[p - 1]]
      allValues == [p \in 1..(MaxKeys + 1) |->
                      IF p - 1 < index THEN n.Values[p]
                      ELSE IF p - 1 = index THEN val ELSE n.Values[p - 1]]
      newId == Len(t.nodes) + 1
      newLeaf == [NewLeafNode EXCEPT
                    !.Keys = [p \in 1..MaxKeys |->
                                IF p + midIndex <= MaxKeys + 1 THEN allKeys[p + midIndex]
                                ELSE Nil],
                    !.Values = [p \in 1..MaxKeys |->
                                  IF p + midIndex <= MaxKeys + 1 THEN allValues[p + midIndex]
                                  ELSE Nil],
                    !.NumKeys = MaxKeys + 1 - midIndex,
                    !.Next = n.Next]
      left == [n EXCEPT
                 !.Keys = [p \in 1..MaxKeys |-> IF p <= midIndex THEN allKeys[p] ELSE Nil],
                 !.Values = [p \in 1..MaxKeys |-> IF p <= midIndex THEN allValues[p] ELSE Nil],
                 !.NumKeys = midIndex,
                 !.Next = newId]
      t1 == [t EXCEPT !.nodes = Append([@ EXCEPT ![leaf] = left], newLeaf)]
  IN  IF Len(n.Values) = 0
      THEN [t EXCEPT !.fault = TRUE]   \* leaf.Values[index:leaf.NumKeys] of a nil slice
      ELSE IF n.Parent = Nil
      THEN NewRootOver(t1, leaf, newLeaf.Keys[1], newId)
      ELSE insertIntoParent(t1, n.Parent, newLeaf.Keys[1], newId)

splitAndInsert(t, leaf, key, val, index) ==
  LET n == t.nodes[leaf]
      midIndex == (MaxKeys + 1) \div 2
      allKeys == [p \in 1..(MaxKeys + 1) |->
                    IF p - 1 < index THEN n.Keys[p]
                    ELSE IF p - 1 = index THEN key ELSE n.Keys[p - 1]]
      allValues == [p \in 1..(MaxKeys + 1) |->
                      IF p - 1 < index THEN n.Values[p]
                      ELSE IF p - 1 = index THEN val ELSE n.Values[p - 1]]
      newId == Len(t.nodes) + 1
      newLeaf == [NewLeafNode EXCEPT
                    !.Keys = [p \in 1..MaxKeys |->
                                IF p + midIndex <= MaxKeys + 1 THEN allKeys[p + midIndex]
                                ELSE Nil],
                    !.Values = [p \in 1..MaxKeys |->
                                  IF p + midIndex <= MaxKeys + 1 THEN allValues[p + midIndex]
                                  ELSE Nil],
                    !.NumKeys = MaxKeys + 1 - midIndex,
                    !.Next = n.Next]
      left == [n EXCEPT
                 !.Keys = [p \in 1..MaxKeys |-> IF p <= midIndex THEN allKeys[p] ELSE Nil],
                 !.Values = [p \in 1..MaxKeys |-> IF p <= midIndex THEN allValues[p] ELSE Nil],
                 !.NumKeys = midIndex,
                 !.Next = newId]
      t1 == [t EXCEPT !.nodes = Append([@ EXCEPT ![leaf] = left], newLeaf)]
  IN  IF Len(n.Values) = 0
      THEN [t EXCEPT !.fault = TRUE]   \* leaf.Values[index:leaf.NumKeys] of a nil slice
      ELSE IF n.Parent = Nil
      THEN NewRootOver(t1, leaf, newLeaf.Keys[1], newId)
      ELSE insertIntoParent(t1, n.Parent, newLeaf.Keys[1], newId)

insertIntoLeaf(t, leaf, key, val) ==
  LET n == t.nodes[leaf]
      index == findKeyIndex(n, key)
      shifted ==
        [n EXCEPT
           !.Keys = [p \in 1..MaxKeys |->
                       IF p - 1 > index /\ p - 1 <= n.NumKeys THEN n.Keys[p - 1]
                       ELSE n.Keys[p]],
           !.Values = [p \in 1..Len(n.Values) |->
                         IF p - 1 > index /\ p - 1 <= n.NumKeys THEN n.Values[p - 1]
                         ELSE n.Values[p]]]
      stored == [shifted EXCEPT !.Keys[index + 1] = key, !.Values[index + 1] = val,
                                !.NumKeys = n.NumKeys + 1]
  IN  IF n.NumKeys = MaxKeys THEN splitAndInsert(t, leaf, key, val, index)
      ELSE IF index < 0 \/ index > MaxKeys THEN t
      ELSE IF n.NumKeys > index /\ Len(n.Values) = 0
      THEN [t EXCEPT !.fault = TRUE]   \* leaf.Values[i] = ... on a nil slice
      ELSE IF index < Len(n.Keys) /\ index < Len(n.Values)
      THEN [t EXCEPT !.nodes[leaf] = stored]
      ELSE [t EXCEPT !.nodes[leaf] = shifted]

Set(t, key, val) ==
  LET leaf  == findLeaf(t, key)
      n     == t.nodes[leaf]
      index == findKeyIndex(n, key)
  IN  IF index >= 0 /\ index < n.NumKeys /\ KeyAt(n, index) = key
      THEN IF index < Len(n.Values)
           THEN [t EXCEPT !.nodes[leaf].Values[index + 1] = val]
           ELSE [t EXCEPT !.fault = TRUE]   \* leaf.Values[index] = val on a nil slice
      ELSE LET t1 == insertIntoLeaf(t, leaf, key, val)
           IN  IF t1.fault THEN t1 ELSE [t1 EXCEPT !.size = @ + 1]

handleUnderflow(t, node) == t

deleteFromLeaf(t, leaf, index) ==
  LET n == t.nodes[leaf]
      shifted ==
        [n EXCEPT
           !.Keys = [p \in 1..MaxKeys |->
                       IF p - 1 >= index /\ p - 1 < n.NumKeys - 1 THEN n.Keys[p + 1]
                       ELSE n.Keys[p]],
           !.Values = [p \in 1..Len(n.Values) |->
                         IF p - 1 >= index /\ p - 1 < n.NumKeys - 1 THEN n.Values[p + 1]
                         ELSE n.Values[p]],
           !.NumKeys = n.NumKeys - 1]
      t1 == [t EXCEPT !.nodes[leaf] = shifted]
  IN  IF index < n.NumKeys - 1 /\ Len(n.Values) = 0
      THEN [t EXCEPT !.fault = TRUE]   \* leaf.Values[i] = ... on a nil slice
      ELSE IF IsUnderflow(shifted) /\ shifted.Parent # Nil
      THEN handleUnderflow(t1, leaf)
      ELSE t1

Delete(t, key) ==
  LET leaf  == findLeaf(t, key)
      n     == t.nodes[leaf]
      index == findKeyIndex(n, key)
  IN  IF index >= 0 /\ index < n.NumKeys /\ KeyAt(n, index) = key
      THEN LET t1 == deleteFromLeaf(t, leaf, index)
           IN  IF t1.fault THEN t1 ELSE [t1 EXCEPT !.size = @ - 1]
      ELSE t

\* --------------------------------------------------------- btree/iterator.go
\* A BTreeIterator is [current, index].

\* The scan loop of FindLarger (btree.go 84-86).
RECURSIVE skipNotLarger(_, _, _)
skipNotLarger(n, index, key) ==
  IF index < n.NumKeys /\ KeyAt(n, index) <= key
  THEN skipNotLarger(n, index + 1, key)
  ELSE index

FindLarger(t, key) ==
  LET leaf  == findLeaf(t, key)
      n     == t.nodes[leaf]
      index == skipNotLarger(n, findKeyIndex(n, key), key)
  IN  IF index >= n.NumKeys
      THEN [current |-> n.Next, index |-> 0]
      ELSE [current |-> leaf, index |-> index]

\* Next: the pair returned and the iterator after the call.
Next(t, iter) ==
  IF iter.current = Nil \/ iter.index >= t.nodes[iter.current].NumKeys
  THEN [key |-> Nil, val |-> Nil, it |-> iter]
  ELSE LET n == t.nodes[iter.current]
           advanced == iter.index + 1
       IN  [key |-> KeyAt(n, iter.index),
            val |-> ValueAt(n, iter.index),
            it  |-> IF advanced >= n.NumKeys /\ n.Next # Nil
                    THEN [current |-> n.Next, index |-> 0]
                    ELSE [current |-> iter.current, index |-> advanced]]

ContainsNext(t, iter) ==
  IF iter.current = Nil THEN FALSE
  ELSE IF iter.index < t.nodes[iter.current].NumKeys THEN TRUE
  ELSE t.nodes[iter.current].Next # Nil
       /\ t.nodes[t.nodes[iter.current].Next].NumKeys > 0

\* ------------------------------------------------------------ storage/page.go
\* PageID is a uint32 and InvalidPageID is 0xFFFFFFFF, all bits set: written
\* here as -1, the same 32 bits read as a signed number.  The page ids of
\* the model stay below MaxPages, far from where a uint32 wraps.
InvalidPageID == -1
FreePageType == 0
BTreeLeafType == 1
BTreeInternalType == 2
MetaPageType == 3
\* The bytes of "SIMPLEDB_V1".
MetaMagic == <<83, 73, 77, 80, 76, 69, 68, 66, 95, 86, 49>>

\* PageSize, PageHeaderSize and the payload capacity len(p.Data).
PageSize == 4096
PageHeaderSize == 16
PayloadSize == PageSize - PageHeaderSize

RECURSIVE Sum(_)
Sum(s) == IF s = <<>> THEN 0 ELSE Head(s) + Sum(Tail(s))

\* Little-endian bytes of a uint16 and of a uint32, and the numbers they
\* read back as.  A uint32 of 2^31 or more is written u - 2^32 (the same 32
\* bits read as a signed number), so that 0xFFFFFFFF is -1.
PutUint16(x) == <<x % 256, (x \div 256) % 256>>
PutUint32(x) ==
  <<x % 256, (x \div 256) % 256, (x \div 65536) % 256, (x \div 16777216) % 256>>
Uint16(b) == b[1] + 256 * b[2]
Uint32(b) ==
  b[1] + 256 * b[2] + 65536 * b[3]
       + 16777216 * (IF b[4] >= 128 THEN b[4] - 256 ELSE b[4])

\* A byte array of fixed length (the payload of a page, the buffer of a
\* serialized page) is kept as the bytes up to some point; the bytes after
\* that point are zero.  ByteAt reads the array at a 0-based index.
ByteAt(bytes, i) == IF i < Len(bytes) THEN bytes[i + 1] ELSE 0
Bytes(bytes, from, n) == [i \in 1..n |-> ByteAt(bytes, from + i - 1)]

\* n bytes, none of them zero.
SomeBytes(n) == [i \in 1..n |-> 1 + (i % 255)]

\* A Page: its ID, the fields of its header and its payload Data.
NewPage(id, pageType) ==
  [ID |-> id, PageType |-> pageType, Reserved |-> 0, DataLength |-> 0,
   NextPage |-> InvalidPageID, PrevPage |-> InvalidPageID, Checksum |-> 0,
   Data |-> <<>>]

\* Data too large for the page is an error and leaves the page as it is;
\* otherwise the payload is the data followed by zeros.
SetDataInclusive(page, data) ==
  IF Len(data) >= PayloadSize THEN [page |-> page, err |-> TRUE]
  ELSE [page |-> [page EXCEPT !.Data = data, !.DataLength = Len(data)], err |-> FALSE]

SetData(page, data) ==
  IF Len(data) > PayloadSize THEN [page |-> page, err |-> TRUE]
  ELSE [page |-> [page EXCEPT !.Data = data, !.DataLength = Len(data)], err |-> FALSE]

\* p.Data[:p.Header.DataLength]
GetData(page) == Bytes(page.Data, 0, page.DataLength)

\* The sum of the DataLength bytes of data (below 2^31 for every page here).
updateChecksum(page) == [page EXCEPT !.Checksum = Sum(GetData(page))]

\* The PageSize bytes of a page: the 16 header bytes, then the payload.  The
\* ID is not among them.
SerializeNextTwice(page) ==
  LET header == <<page.PageType, page.Reserved>> \o PutUint16(page.DataLength)
                  \o PutUint32(page.NextPage) \o PutUint32(page.NextPage)
                  \o PutUint32(page.Checksum)
  IN  [len |-> Len(header) + PayloadSize, bytes |-> header \o page.Data]

Serialize(page) ==
  LET header == <<page.PageType, page.Reserved>> \o PutUint16(page.DataLength)
                  \o PutUint32(page.NextPage) \o PutUint32(page.PrevPage)
                  \o PutUint32(page.Checksum)
  IN  [len |-> Len(header) + PayloadSize, bytes |-> header \o page.Data]

\* Deserialize into a Page{ID: id}: every header field is taken as it is, the
\* checksum is not verified.  A buffer of another length is an error.
Deserialize(id, buf) ==
  IF buf.len # PageSize THEN [page |-> NewPage(id, FreePageType), err |-> TRUE]
  ELSE [page |-> [ID |-> id,
                  PageType |-> ByteAt(buf.bytes, 0),
                  Reserved |-> ByteAt(buf.bytes, 1),
                  DataLength |-> Uint16(Bytes(buf.bytes, 2, 2)),
                  NextPage |-> Uint32(Bytes(buf.bytes, 4, 4)),
                  PrevPage |-> Uint32(Bytes(buf.bytes, 8, 4)),
                  Checksum |-> Uint32(Bytes(buf.bytes, 12, 4)),
                  Data |-> SubSeq(buf.bytes, PageHeaderSize + 1, Len(buf.bytes))],
        err |-> FALSE]

\* ---------------------------------------------------- storage/page_manager.go
\* The file is the sequence of its pages: page id is element id + 1.  A page
\* that lies before a written one and was never written itself reads as zeros.
ZeroPage == [len |-> PageSize, bytes |-> <<>>]

\* file.WriteAt(buf, id * PageSize)
WriteAtEnd(file, id, buf) == Append(file, buf)

WriteAt(file, id, buf) ==
  [i \in 1..(IF Len(file) > id + 1 THEN Len(file) ELSE id + 1) |->
     IF i = id + 1 THEN buf ELSE IF i <= Len(file) THEN file[i] ELSE ZeroPage]

\* A PageManager with its file: [file, stable, open, nextPage, freeList, ioOk,
\* syncOk].  file is the content the operating system shows, stable the
\* content on stable storage, which file.Sync() brings up to file.  open is
\* pm.file != nil; ioOk and syncOk are the environment: whether WriteAt and
\* Sync succeed.  Every operation on a nil *os.File returns an error.
writePageLockedNoSync(pm, page) ==
  IF page.ID = InvalidPageID \/ ~pm.open \/ ~pm.ioOk
  THEN [pm |-> pm, err |-> TRUE]
  ELSE [pm |-> [pm EXCEPT !.file = WriteAt(@, page.ID, Serialize(updateChecksum(page)))],
        err |-> FALSE]

writePageLocked(pm, page) ==
  IF page.ID = InvalidPageID \/ ~pm.open \/ ~pm.ioOk
  THEN [pm |-> pm, err |-> TRUE]
  ELSE With(WriteAt(pm.file, page.ID, Serialize(updateChecksum(page))),
            LAMBDA file :
              IF ~pm.syncOk
              THEN [pm |-> [pm EXCEPT !.file = file], err |-> TRUE]
              ELSE [pm |-> [pm EXCEPT !.file = file, !.stable = file], err |-> FALSE])

readPageLocked(pm, pageID) ==
  IF pageID = InvalidPageID \/ ~pm.open \/ pageID + 1 > Len(pm.file)
  THEN [page |-> NewPage(pageID, FreePageType), err |-> TRUE]
  ELSE Deserialize(pageID, pm.file[pageID + 1])

ReadPage(pm, pageID) == readPageLocked(pm, pageID)

WritePage(pm, page) == writePageLocked(pm, page)

initializeIfEmpty(pm) ==
  LET d == SetData(NewPage(0, MetaPageType), MetaMagic)
  IN  IF Len(pm.file) = 0
      THEN (IF d.err THEN [pm |-> pm, err |-> TRUE] ELSE writePageLocked(pm, d.page))
      ELSE [pm |-> pm, err |-> FALSE]

\* A manager that starts issuing ids at 0, the page of the metadata.
NewPageManagerFromZero(file, stable, ioOk, syncOk) ==
  LET r == initializeIfEmpty([file |-> file, stable |-> stable, open |-> TRUE,
                              nextPage |-> 0, freeList |-> <<>>,
                              ioOk |-> ioOk, syncOk |-> syncOk])
  IN  IF r.err THEN [pm |-> [r.pm EXCEPT !.open = FALSE], err |-> TRUE] ELSE r

\* NewPageManager(filename) on a file with the given content.  When the
\* initialization fails the file is closed and no manager is returned.
NewPageManager(file, stable, ioOk, syncOk) ==
  LET r == initializeIfEmpty([file |-> file, stable |-> stable, open |-> TRUE,
                              nextPage |-> 1, freeList |-> <<>>,
                              ioOk |-> ioOk, syncOk |-> syncOk])
  IN  IF r.err THEN [pm |-> [r.pm EXCEPT !.open = FALSE], err |-> TRUE] ELSE r

PageManagerClose(pm) == [pm EXCEPT !.open = FALSE]

\* Taking the oldest entry of the free list: a queue discipline, which the
\* source does not use (compare TakeLastFree).
TakeFirstFree(pm) ==
  [pageID |-> Head(pm.freeList), pm |-> [pm EXCEPT !.freeList = Tail(@)]]

\* pm.freeList[len-1], and the list cut to freeList[:len-1].
TakeLastFree(pm) ==
  [pageID |-> pm.freeList[Len(pm.freeList)],
   pm |-> [pm EXCEPT !.freeList = SubSeq(@, 1, Len(@) - 1)]]

\* The id is taken before the empty page is written: it is returned, and
\* stays taken, also when the write fails.
\* An id taken from the free list handed out with its page left as it is.
AllocatePageAsIs(pm, pageType) ==
  LET t == IF Len(pm.freeList) > 0
           THEN TakeLastFree(pm)
           ELSE [pageID |-> pm.nextPage,
                 pm |-> [pm EXCEPT !.nextPage = @ + 1]]
      w == writePageLocked(t.pm, NewPage(t.pageID, pageType))
  IN  IF Len(pm.freeList) > 0
      THEN [pm |-> t.pm, pageID |-> t.pageID, err |-> FALSE]
      ELSE [pm |-> w.pm, pageID |-> t.pageID, err |-> w.err]

AllocatePage(pm, pageType) ==
  LET t == IF Len(pm.freeList) > 0
           THEN TakeLastFree(pm)
           ELSE [pageID |-> pm.nextPage,
                 pm |-> [pm EXCEPT !.nextPage = @ + 1]]
      w == writePageLocked(t.pm, NewPage(t.pageID, pageType))
  IN  [pm |-> w.pm, pageID |-> t.pageID, err |-> w.err]

\* The id put on the free list before the page is written, and left there
\* when the write fails.
DeallocatePageEager(pm, pageID) ==
  LET w == writePageLocked(pm, NewPage(pageID, FreePageType))
  IN  [pm |-> [w.pm EXCEPT !.freeList = Append(@, pageID)], err |-> w.err]

DeallocatePage(pm, pageID) ==
  LET w == writePageLocked(pm, NewPage(pageID, FreePageType))
  IN  IF w.err THEN [pm |-> w.pm, err |-> TRUE]
      ELSE [pm |-> [w.pm EXCEPT !.freeList = Append(@, pageID)], err |-> FALSE]

\* ---------------------------------------------------- storage/serialization.go
\* A byte string of the model is one token, encoded as its length and its
\* bytes: <<1, b>>, and <<0>> for the empty string.  LongBytes is a string
\* of PayloadSize zero bytes: with its length it is more than a page holds.
EmptyBytes == -1
LongBytes == -2
EncodeBytes(b) ==
  IF b = EmptyBytes THEN <<0>>
  ELSE IF b = LongBytes THEN <<PayloadSize>> \o [i \in 1..PayloadSize |-> 0]
  ELSE <<1, b>>

\* The entries i, i+1, .. of the node; a nil key is an error.
RECURSIVE SerializeEntries(_, _)
SerializeEntries(node, i) ==
  IF i >= node.NumKeys THEN [data |-> <<>>, err |-> FALSE]
  ELSE IF KeyAt(node, i) = Nil THEN [data |-> <<>>, err |-> TRUE]
  ELSE LET rest == SerializeEntries(node, i + 1)
           val == IF ValueAt(node, i) = Nil THEN EmptyBytes ELSE ValueAt(node, i)
       IN  [data |-> EncodeBytes(KeyAt(node, i))
                       \o (IF IsLeaf(node) THEN EncodeBytes(val) ELSE <<>>)
                       \o rest.data,
            err |-> rest.err]

\* Node type, number of keys, the entries, then a zero for each link: the
\* next-leaf pointer and the child page ids are not written.
SerializeNode(node) ==
  LET e == SerializeEntries(node, 0)
      links == IF IsLeaf(node) THEN <<0>> ELSE [i \in 1..(node.NumKeys + 1) |-> 0]
  IN  IF e.err THEN [data |-> <<>>, err |-> TRUE]
      ELSE [data |-> <<(IF IsLeaf(node) THEN 1 ELSE 0), node.NumKeys>> \o e.data \o links,
            err |-> FALSE]

\* Entry i of numKeys, read at the 0-based offset.  fault: node.Keys[i] = key
\* with i beyond the MaxKeys slots of the node, an index out of range.
RECURSIVE DeserializeEntries(_, _, _, _, _)
DeserializeEntries(data, offset, i, numKeys, node) ==
  IF i >= numKeys THEN [node |-> node, err |-> FALSE, fault |-> FALSE]
  ELSE IF offset + 1 > Len(data) \/ offset + 1 + data[offset + 1] > Len(data)
  THEN [node |-> node, err |-> TRUE, fault |-> FALSE]
  ELSE IF i >= Len(node.Keys)
  THEN [node |-> node, err |-> FALSE, fault |-> TRUE]
  ELSE LET keyLen == data[offset + 1]
           key == IF keyLen = 0 THEN EmptyBytes ELSE data[offset + 2]
           voff == offset + 1 + keyLen
           n1 == [node EXCEPT !.Keys[i + 1] = key]
       IN  IF ~IsLeaf(node) THEN DeserializeEntries(data, voff, i + 1, numKeys, n1)
           ELSE IF voff + 1 > Len(data) \/ voff + 1 + data[voff + 1] > Len(data)
           THEN [node |-> node, err |-> TRUE, fault |-> FALSE]
           ELSE LET valLen == data[voff + 1]
                    val == IF valLen = 0 THEN EmptyBytes ELSE data[voff + 2]
                IN  DeserializeEntries(data, voff + 1 + valLen, i + 1, numKeys,
                                       [n1 EXCEPT !.Values[i + 1] = val])

\* The links are skipped: the node comes back with Next and Children nil.
DeserializeNodeNoCount(data) ==
  IF Len(data) < 2 THEN [node |-> NewLeafNode, err |-> TRUE, fault |-> FALSE]
  ELSE DeserializeEntries(data, 2, 0, data[2],
                          IF data[1] = 1 THEN NewLeafNode ELSE NewInternalNode)

DeserializeNode(data) ==
  IF Len(data) < 2 THEN [node |-> NewLeafNode, err |-> TRUE, fault |-> FALSE]
  ELSE LET r == DeserializeEntries(data, 2, 0, data[2],
                                   IF data[1] = 1 THEN NewLeafNode ELSE NewInternalNode)
       IN  [node |-> [r.node EXCEPT !.NumKeys = data[2]], err |-> r.err, fault |-> r.fault]

\* len(b) of a byte string of the model.
ByteLen(b) == IF b = EmptyBytes THEN 0 ELSE IF b = LongBytes THEN PayloadSize ELSE 1

\* The size added by the entries i, i+1, ..: a nil key adds nothing, a nil
\* value of a leaf adds its length field.
RECURSIVE EstimateEntries(_, _)
EstimateEntries(node, i) ==
  IF i >= node.NumKeys THEN 0
  ELSE (IF KeyAt(node, i) # Nil THEN 4 + ByteLen(KeyAt(node, i)) ELSE 0)
       + (IF IsLeaf(node)
          THEN (IF ValueAt(node, i) # Nil THEN 4 + ByteLen(ValueAt(node, i)) ELSE 4)
          ELSE 0)
       + EstimateEntries(node, i + 1)

\* A nil value of a leaf counted as nothing.
EstimateNodeSizeSkipNil(node) ==
  5 + EstimateEntries(node, 0)
    - 4 * Cardinality({i \in 0..(node.NumKeys - 1) : IsLeaf(node) /\ ValueAt(node, i) = Nil})
    + (IF IsLeaf(node) THEN 4 ELSE 4 * (node.NumKeys + 1))

EstimateNodeSize(node) ==
  5 + EstimateEntries(node, 0)
    + (IF IsLeaf(node) THEN 4 ELSE 4 * (node.NumKeys + 1))

\* ------------------------------------------------------ storage/disk_btree.go
\* The machine m: [pm, heap, nodeToPageID, trees, dropped].  heap holds the btree.Node
\* objects, a *btree.Node is an index into it; nodeToPageID is the package
\* level map; trees holds the DiskBTree objects [rootID, cache], a *DiskBTree
\* is an index into it; dropped is history: Set or Delete has discarded the
\* error of a page read or write.
NoCache == <<>>

getPageIDFromNode(m, node) ==
  IF node \in DOMAIN m.nodeToPageID THEN m.nodeToPageID[node] ELSE InvalidPageID

loadNode(m, t, pageID) ==
  IF pageID \in DOMAIN m.trees[t].cache
  THEN [m |-> m, node |-> m.trees[t].cache[pageID], err |-> FALSE]
  ELSE LET r == ReadPage(m.pm, pageID)
           d == DeserializeNode(GetData(r.page))
           node == Len(m.heap) + 1
       IN  IF r.err \/ d.err THEN [m |-> m, node |-> Nil, err |-> TRUE]
           ELSE [m |-> [m EXCEPT !.heap = Append(@, d.node),
                                 !.nodeToPageID = Put(@, node, pageID),
                                 !.trees[t].cache = Put(@, pageID, node)],
                 node |-> node, err |-> FALSE]

saveNode(m, t, pageID, node) ==
  LET s == SerializeNode(m.heap[node])
      pageType == IF IsLeaf(m.heap[node]) THEN BTreeLeafType ELSE BTreeInternalType
      d == SetData(NewPage(pageID, pageType), s.data)
  IN  IF s.err \/ d.err THEN [m |-> m, err |-> TRUE]
      ELSE With(WritePage(m.pm, d.page),
                LAMBDA w :
                  IF w.err THEN [m |-> [m EXCEPT !.pm = w.pm], err |-> TRUE]
                  ELSE [m |-> [m EXCEPT !.pm = w.pm,
                                        !.nodeToPageID = Put(@, node, pageID),
                                        !.trees[t].cache = Put(@, pageID, node)],
                        err |-> FALSE])

\* The error of saveNode is dropped.
saveNodeFromCache(m, t, node) ==
  IF getPageIDFromNode(m, node) # InvalidPageID
  THEN With(saveNode(m, t, getPageIDFromNode(m, node), node),
            LAMBDA s : [s.m EXCEPT !.dropped = @ \/ s.err])
  ELSE m

\* A tree whose root is always page 1, whatever the page manager has issued.
NewDiskBTreeAtPageOne(m) ==
  LET t == Len(m.trees) + 1
      root == Len(m.heap) + 1
      m1 == [m EXCEPT !.trees = Append(@, [rootID |-> 0, cache |-> NoCache])]
      m2 == [m1 EXCEPT !.heap = Append(@, NewLeafNode)]
      s == saveNode(m2, t, 1, root)
  IN  IF s.err
      THEN [m |-> [s.m EXCEPT !.trees = m.trees], dbt |-> Nil, err |-> TRUE]
      ELSE [m |-> [s.m EXCEPT !.trees[t].rootID = 1], dbt |-> t, err |-> FALSE]

\* On an error the DiskBTree object is dropped; the page stays allocated.
NewDiskBTree(m) ==
  LET t == Len(m.trees) + 1
      a == AllocatePage(m.pm, BTreeLeafType)
      root == Len(m.heap) + 1
      m1 == [m EXCEPT !.pm = a.pm,
                      !.trees = Append(@, [rootID |-> 0, cache |-> NoCache])]
      m2 == [m1 EXCEPT !.heap = Append(@, NewLeafNode)]
      s == saveNode(m2, t, a.pageID, root)
  IN  IF a.err THEN [m |-> [m EXCEPT !.pm = a.pm], dbt |-> Nil, err |-> TRUE]
      ELSE IF s.err
      THEN [m |-> [s.m EXCEPT !.trees = m.trees], dbt |-> Nil, err |-> TRUE]
      ELSE [m |-> [s.m EXCEPT !.trees[t].rootID = a.pageID], dbt |-> t, err |-> FALSE]

\* The loop of findLeaf breaks at once: the node it is given is the answer.
DiskFindLeaf(m, node, key) == node

DiskFindKeyIndex(node, key) ==
  LET hits == {i \in 0..(node.NumKeys - 1) : KeyAt(node, i) # Nil /\ key <= KeyAt(node, i)}
  IN  IF hits = {} THEN node.NumKeys ELSE Min(hits)

\* index >= 0 && index < leaf.NumKeys && bytes.Equal(leaf.KeyAt(index), key)
DiskKeyFound(node, index, key) ==
  index >= 0 /\ index < node.NumKeys /\ KeyAt(node, index) = key

DiskGet(m, t, key) ==
  LET l == loadNode(m, t, m.trees[t].rootID)
      leaf == l.m.heap[DiskFindLeaf(l.m, l.node, key)]
      index == DiskFindKeyIndex(leaf, key)
  IN  IF l.err THEN [m |-> l.m, val |-> Nil, ok |-> FALSE]
      ELSE IF DiskKeyFound(leaf, index, key)
      THEN [m |-> l.m, val |-> ValueAt(leaf, index), ok |-> TRUE]
      ELSE [m |-> l.m, val |-> Nil, ok |-> FALSE]

\* The leaf n with the entries from index on moved up by one and the new
\* entry put at index.
DiskShiftedIn(n, key, val, index) ==
  LET keys == [i \in 1..MaxKeys |->
                 IF i = index + 1 THEN key
                 ELSE IF i > index + 1 /\ i <= n.NumKeys + 1 THEN n.Keys[i - 1]
                 ELSE n.Keys[i]]
      vals == [i \in 1..MaxKeys |->
                 IF i = index + 1 THEN val
                 ELSE IF i > index + 1 /\ i <= n.NumKeys + 1 THEN n.Values[i - 1]
                 ELSE n.Values[i]]
  IN  [n EXCEPT !.Keys = keys, !.Values = vals, !.NumKeys = @ + 1]

\* Nothing is stored in a leaf that holds MaxKeys keys: there is no split.
DiskInsertIntoLeaf(m, t, leaf, key, val, index) ==
  IF m.heap[leaf].NumKeys < MaxKeys
  THEN saveNodeFromCache(
         [m EXCEPT !.heap[leaf] = DiskShiftedIn(m.heap[leaf], key, val, index)], t, leaf)
  ELSE m

DiskSet(m, t, key, val) ==
  LET l == loadNode(m, t, m.trees[t].rootID)
      leaf == DiskFindLeaf(l.m, l.node, key)
      index == DiskFindKeyIndex(l.m.heap[leaf], key)
  IN  IF l.err THEN [l.m EXCEPT !.dropped = TRUE]
      ELSE IF DiskKeyFound(l.m.heap[leaf], index, key)
      THEN saveNodeFromCache([l.m EXCEPT !.heap[leaf].Values[index + 1] = val], t, leaf)
      ELSE DiskInsertIntoLeaf(l.m, t, leaf, key, val, index)

\* The leaf n with the entries after index moved down by one.
DiskShiftedOut(n, index) ==
  LET cut(s) == [i \in 1..Len(s) |->
                   IF i >= index + 1 /\ i <= n.NumKeys - 1 THEN s[i + 1] ELSE s[i]]
  IN  [n EXCEPT !.Keys = cut(@), !.Values = cut(@), !.NumKeys = @ - 1]

DiskDeleteFromLeaf(m, t, leaf, index) ==
  IF index < 0 \/ index >= m.heap[leaf].NumKeys THEN m
  ELSE saveNodeFromCache(
         [m EXCEPT !.heap[leaf] = DiskShiftedOut(m.heap[leaf], index)], t, leaf)

DiskDelete(m, t, key) ==
  LET l == loadNode(m, t, m.trees[t].rootID)
      leaf == DiskFindLeaf(l.m, l.node, key)
      index == DiskFindKeyIndex(l.m.heap[leaf], key)
  IN  IF l.err THEN [l.m EXCEPT !.dropped = TRUE]
      ELSE IF DiskKeyFound(l.m.heap[leaf], index, key)
      THEN DiskDeleteFromLeaf(l.m, t, leaf, index)
      ELSE l.m

\* The position after the keys not larger than key, from index on.
RECURSIVE DiskSkipNotLarger(_, _, _)
DiskSkipNotLarger(n, index, key) ==
  IF index < n.NumKeys /\ KeyAt(n, index) <= key
  THEN DiskSkipNotLarger(n, index + 1, key)
  ELSE index

NoDiskIterator == [dbt |-> Nil, current |-> InvalidPageID, index |-> 0]

\* The scan never leaves the leaf it starts in.
DiskFindLarger(m, t, key) ==
  LET l == loadNode(m, t, m.trees[t].rootID)
      leaf == DiskFindLeaf(l.m, l.node, key)
      index == DiskSkipNotLarger(l.m.heap[leaf], DiskFindKeyIndex(l.m.heap[leaf], key), key)
  IN  IF l.err \/ index >= l.m.heap[leaf].NumKeys
      THEN [m |-> l.m, it |-> [dbt |-> t, current |-> InvalidPageID, index |-> 0]]
      ELSE [m |-> l.m,
            it |-> [dbt |-> t, current |-> getPageIDFromNode(l.m, leaf), index |-> index]]

DiskClose(m, t) == [m EXCEPT !.trees[t].cache = NoCache]

\* ----------------------------------------------------- storage/disk_iterator.go
\* The second half of Next, after the check it.index >= node.NumKeys: the
\* reads of the entry, the advance and the end-of-leaf test.
DiskNextRead(m, iter) ==
  LET node == m.heap[loadNode(m, iter.dbt, iter.current).node]
  IN  [m |-> m,
       it |-> [iter EXCEPT !.index = @ + 1,
                           !.current = IF iter.index + 1 >= node.NumKeys
                                       THEN InvalidPageID ELSE @],
       key |-> KeyAt(node, iter.index), val |-> ValueAt(node, iter.index)]

DiskNext(m, iter) ==
  LET l == loadNode(m, iter.dbt, iter.current)
  IN  IF iter.current = InvalidPageID
      THEN [m |-> m, it |-> iter, key |-> Nil, val |-> Nil]
      ELSE IF l.err \/ iter.index >= l.m.heap[l.node].NumKeys
      THEN [m |-> l.m, it |-> iter, key |-> Nil, val |-> Nil]
      ELSE DiskNextRead(l.m, iter)

DiskContainsNext(m, iter) ==
  LET l == loadNode(m, iter.dbt, iter.current)
  IN  IF iter.current = InvalidPageID THEN [m |-> m, ok |-> FALSE]
      ELSE IF l.err THEN [m |-> l.m, ok |-> FALSE]
      ELSE [m |-> l.m, ok |-> iter.index < l.m.heap[l.node].NumKeys]

\* ------------------------------------------------------------------ db/table.go
\* The bodies of Insert, Update, Delete and Select of the Table whose
\* DiskBTree is t, between Lock and Unlock.  An error is "nil" or its text.
TableInsert(m, t, key, val) == [m |-> DiskSet(m, t, key, val), err |-> "nil"]

TableUpdate(m, t, key, val) ==
  LET found == DiskGet(m, t, key)
  IN  IF ~found.ok THEN [m |-> found.m, err |-> "key not found"]
      ELSE [m |-> DiskSet(found.m, t, key, val), err |-> "nil"]

TableDelete(m, t, key) ==
  LET found == DiskGet(m, t, key)
  IN  IF ~found.ok THEN [m |-> found.m, err |-> "key not found"]
      ELSE [m |-> DiskDelete(found.m, t, key), err |-> "nil"]

TableSelect(m, t, key) == DiskGet(m, t, key)

\* A Database: the map from table names to tables, a table being its
\* DiskBTree.  NewDatabase makes the map empty.
NewDatabase == [tables |-> <<>>]

CreateTable(m, db, name) ==
  LET r == NewDiskBTree(m)
  IN  IF name \in DOMAIN db.tables
      THEN [m |-> m, db |-> db, table |-> Nil, err |-> "already exists"]
      ELSE IF r.err
      THEN [m |-> r.m, db |-> db, table |-> Nil, err |-> "failed to create B+Tree"]
      ELSE [m |-> r.m, db |-> [db EXCEPT !.tables = Put(@, name, r.dbt)],
            table |-> r.dbt, err |-> "nil"]

GetTable(db, name) ==
  IF name \notin DOMAIN db.tables THEN [table |-> Nil, err |-> "does not exist"]
  ELSE [table |-> db.tables[name], err |-> "nil"]

\* table.Close() returns the nil of DiskBTree.Close.
DropTableKeepsName(m, db, name) ==
  IF name \notin DOMAIN db.tables THEN [m |-> m, db |-> db, err |-> "does not exist"]
  ELSE [m |-> DiskClose(m, db.tables[name]), db |-> db, err |-> "nil"]

DropTable(m, db, name) ==
  IF name \notin DOMAIN db.tables THEN [m |-> m, db |-> db, err |-> "does not exist"]
  ELSE [m |-> DiskClose(m, db.tables[name]),
        db |-> [db EXCEPT !.tables = [n \in DOMAIN @ \ {name} |-> @[n]]],
        err |-> "nil"]

\* ------------------------------------------------------------ storage/file.go
\* The file system f: dir maps the names of the directory to files, data
\* holds the content of each file, as the operating system shows them; ddir
\* and ddata are the directory and the contents on stable storage, which is
\* what a crash leaves.  The name of pathName is PathName, the name of
\* '<pathName>.tmp.<n>' is the number n >= 1.
PathName == 0

\* os.OpenFile(name, O_CREATE|O_RDWR|O_TRUNC): an existing file is cut to
\* nothing, a missing one is made.
OpenFile(f, name) ==
  IF name \in DOMAIN f.dir
  THEN [f |-> [f EXCEPT !.data[f.dir[name]] = <<>>], fp |-> f.dir[name]]
  ELSE [f |-> [f EXCEPT !.data = Append(@, <<>>), !.ddata = Append(@, <<>>),
                        !.dir = Put(@, name, Len(f.data) + 1)],
        fp |-> Len(f.data) + 1]

\* fp.Write(bytes)
Write(f, fp, bytes) == [f EXCEPT !.data[fp] = @ \o bytes]

\* A Sync that brings nothing to stable storage.
SyncNothing(f, fp) == f

\* fp.Sync(): the content of the file is on stable storage.
Sync(f, fp) == [f EXCEPT !.ddata[fp] = f.data[fp]]

\* os.Rename(old, new): new names the file of old, in one step.
Rename(f, old, new) ==
  [f EXCEPT !.dir = [n \in (DOMAIN @ \ {old}) \cup {new} |->
                       IF n = new THEN @[old] ELSE @[n]]]

\* os.Remove(name); removing a missing file is an error that is ignored.
Remove(f, name) == [f EXCEPT !.dir = [n \in DOMAIN @ \ {name} |-> @[n]]]

\* The deferred function of SaveData: fp.Close(), and os.Remove(tempFile)
\* when the err of the function body is not nil.  The err of 'if _, err :=
\* fp.Write(data)' and of 'if err := fp.Sync()' is another variable.
SaveDataDeferred(f, err) == IF err # "nil" THEN Remove(f, f.tmp) ELSE f

\* What a reader of pathName gets: <<content>>, or <<>> when it is missing.
Shown(f) == IF PathName \in DOMAIN f.dir THEN <<f.data[f.dir[PathName]]>> ELSE <<>>

\* ====================================================================
\* State
\* ====================================================================
VARIABLES
  bt,        \* the in-memory BTree: [nodes, root, size, fault]
  kv,        \* history: key -> value of its latest Set, Nil after a Delete of it
  dels,      \* history: number of Delete calls made
  it,        \* the BTreeIterator in use: [current, index]
  scan,      \* the caller's scan: [live, mode, from, out, ended, steps]
  m,         \* the storage machine: [pm, heap, nodeToPageID, trees]
  dbt,       \* the caller's *DiskBTree (Nil for none)
  dkv,       \* history: key -> value of its latest Set on dbt, Nil after Delete
  saved,     \* history: what Get returned at the end of the last session
  opens,     \* history: number of NewPageManager calls on the file
  pending,   \* history: the page ids deallocated and not yet handed out again
  lastAlloc, \* history: the latest direct AllocatePage call
  held,      \* history: the page ids the caller holds: [ids, ever, strict, known, dirty]
  tbl,       \* the Table: [btree, writer, readers]
  gor,       \* the goroutines using the table: [pc, key, val] each
  iters,     \* the iterator each goroutine got from Scan
  locks      \* the mutexes held: a set of [kind, t, g, mode]

VARIABLES
  db,        \* the Database: [tables], the map from names to tables
  rows,      \* history: table name -> key -> value, by the calls that returned nil
  tret       \* the latest call on the database or a table of it, and its result

VARIABLES
  written    \* history: the page writes the page manager was asked to make

VARIABLES
  pg,        \* a Page that Serialize, SetData and GetData are called on
  buf,       \* the buffer of the latest Serialize and the page it was made from
  ret,       \* the latest call on pg and what it returned
  nd,        \* a btree.Node that SerializeNode is called on
  nret       \* the latest call of the node codec and what it returned

VARIABLES
  fs         \* the file system and the SaveData call: [dir, data, ddir, ddata, pc, ..]

treeVars == <<bt, kv, dels>>
pageVars == <<pg, buf, ret>>
codecVars == <<nd, nret>>
fileVars == <<fs>>
unitVars == <<pageVars, codecVars, fileVars>>
scanVars == <<it, scan>>
memVars == <<bt, kv, dels, it, scan>>
diskVars == <<dbt, dkv, saved, opens>>
pmVars == <<pending, lastAlloc, held, written>>
tableVars == <<tbl, gor, iters, locks>>
dbVars == <<db, rows, tret>>
storageVars == <<m, diskVars, pmVars, tableVars, dbVars>>
vars == <<memVars, storageVars, unitVars>>

NoIterator == [current |-> Nil, index |-> 0]
NoScan == [live |-> FALSE, mode |-> "none", from |-> Nil, out |-> <<>>,
           ended |-> FALSE, steps |-> 0]

TreeInit ==
  /\ bt = New
  /\ kv = <<>>
  /\ dels = 0
  /\ it = NoIterator
  /\ scan = NoScan

\* The keys that have been Set and not since Deleted.
Present == {k \in DOMAIN kv : kv[k] # Nil}

\* A call is made on a live tree by a caller that holds no iterator; a
\* panic ends the program.
Callable == ~bt.fault /\ ~scan.live

\* bt.Set(key, val)
SetStep(key, val) ==
  /\ Callable
  /\ bt' = Set(bt, key, val)
  /\ kv' = Put(kv, key, val)
  /\ UNCHANGED <<dels, it, scan, storageVars, unitVars>>

\* bt.Delete(key)
DeleteStep(key) ==
  /\ Callable
  /\ bt' = Delete(bt, key)
  /\ kv' = Put(kv, key, Nil)
  /\ dels' = dels + 1
  /\ UNCHANGED <<it, scan, storageVars, unitVars>>

\* A Set for a key of K and a value of V.  Size is capped: a Set that fails
\* to store its key still counts it.
CallSet(K, V) ==
  \E key \in K, val \in V : bt.size <= Cardinality(K) /\ SetStep(key, val)

\* A Delete for a key of K, at most D of them.
CallDelete(K, D) ==
  \E key \in K : dels < D /\ DeleteStep(key)

\* The number of (leaf, index) positions an iterator can stand at.
RECURSIVE PositionsFrom(_, _)
PositionsFrom(nodes, i) ==
  IF i > Len(nodes) THEN 0
  ELSE (IF IsLeaf(nodes[i]) THEN nodes[i].NumKeys + 1 ELSE 0) + PositionsFrom(nodes, i + 1)

ChainPositions(t) == PositionsFrom(t.nodes, 1)

\* iter := bt.FindLarger(key); the caller then either calls Next until it
\* returns a nil key ("drain") or runs `for iter.ContainsNext() { iter.Next() }`
\* ("loop", query/executor.go 91-99).  Key 0 is the empty byte string.
CallFindLarger(K) ==
  \E key \in K, mode \in {"drain", "loop"} :
    /\ Callable
    /\ it' = FindLarger(bt, key)
    /\ scan' = [live |-> TRUE, mode |-> mode, from |-> key, out |-> <<>>,
                ended |-> FALSE, steps |-> 0]
    /\ UNCHANGED <<treeVars, storageVars, unitVars>>

\* key, val := iter.Next()
CallNext ==
  /\ scan.live /\ scan.mode = "drain" /\ ~scan.ended
  /\ LET r == Next(bt, it)
     IN  /\ it' = r.it
         /\ scan' = IF r.key = Nil
                    THEN [scan EXCEPT !.ended = TRUE]
                    ELSE [scan EXCEPT !.out = Append(@, <<r.key, r.val>>)]
  /\ UNCHANGED <<treeVars, storageVars, unitVars>>

\* One evaluation of the loop condition and, when it is true, of the body.
\* steps counts the iterations and is capped one above ChainPositions.
LoopStep ==
  /\ scan.live /\ scan.mode = "loop" /\ ~scan.ended
  /\ scan.steps <= ChainPositions(bt)
  /\ IF ContainsNext(bt, it)
     THEN LET r == Next(bt, it)
          IN  /\ it' = r.it
              /\ scan' = [scan EXCEPT
                            !.steps = @ + 1,
                            !.out = IF r.key # Nil THEN Append(@, <<r.key, r.val>>) ELSE @]
     ELSE /\ it' = it
          /\ scan' = [scan EXCEPT !.ended = TRUE]
  /\ UNCHANGED <<treeVars, storageVars, unitVars>>

\* The caller drops the iterator.
Discard ==
  /\ scan.live
  /\ it' = NoIterator
  /\ scan' = NoScan
  /\ UNCHANGED <<treeVars, storageVars, unitVars>>

\* ------------------------------------------------------------------ db/table.go
\* A Table: [btree, writer, readers]; writer is the goroutine holding t.mu
\* locked (Nil for none), readers the number holding it read-locked.
NoTable == [btree |-> Nil, writer |-> Nil, readers |-> 0]
Goroutines == 1..NumGoroutines
Idle == [pc |-> "idle", key |-> Nil, val |-> Nil]
Writers == {"Insert", "Update", "Delete"}
Readers == {"Select", "Scan"}

\* written.at: page id -> the page type and data of the latest write call for
\* that id, if that call returned nil; written.op and written.last: the
\* latest write call and its page id; written.calls: the number of calls,
\* counted up to MaxWrites.
NoWrites == [at |-> <<>>, op |-> "none", last |-> InvalidPageID, calls |-> 0]

Without(f, k) == [x \in DOMAIN f \ {k} |-> f[x]]

Wrote(w, op, id, pageType, data, err) ==
  [at |-> IF err THEN Without(w.at, id)
          ELSE Put(w.at, id, [PageType |-> pageType, Data |-> data]),
   op |-> op, last |-> id,
   calls |-> IF w.calls < MaxWrites THEN w.calls + 1 ELSE w.calls]

\* No call made yet.  A call is kept with its arguments, the error it
\* returned, found: Select found the key, or the key was in the table by the
\* calls before this Insert, Update or Delete, dropped: a page read or write
\* failed in it, and dels: the number of Delete calls made so far.
NoCall == [op |-> "none", name |-> Nil, key |-> Nil, val |-> Nil, err |-> "nil",
           found |-> FALSE, dropped |-> FALSE, dels |-> 0]

\* held.ids: the ids AllocatePage returned with a nil error and that have not
\* been deallocated since; held.ever: every id AllocatePage returned in this
\* session; held.strict: every DeallocatePage call so far was given an id of
\* held.ids; held.known: every one was given an id of held.ever; held.dirty:
\* the ids a WritePage with data has succeeded for.
NoneHeld == [ids |-> {}, ever |-> {}, strict |-> TRUE, known |-> TRUE, dirty |-> {}]

\* The file is new: NewPageManager has written the metadata page.
StorageInit ==
  /\ m = [pm |-> NewPageManager(<<>>, <<>>, TRUE, TRUE).pm, heap |-> <<>>,
          nodeToPageID |-> <<>>, trees |-> <<>>, dropped |-> FALSE]
  /\ dbt = Nil
  /\ dkv = <<>>
  /\ saved = <<>>
  /\ opens = 1
  /\ pending = <<>>
  /\ held = NoneHeld
  /\ lastAlloc = [made |-> FALSE, pageID |-> 0, free |-> 0, pending |-> <<>>,
                  before |-> 0, after |-> 0]
  /\ written = NoWrites
  /\ tbl = NoTable
  /\ gor = [g \in Goroutines |-> Idle]
  /\ iters = [g \in Goroutines |-> NoDiskIterator]
  /\ locks = {}
  /\ db = NewDatabase
  /\ rows = <<>>
  /\ tret = NoCall

\* ---------------------------------------------------------- page manager calls
\* A direct call of pm.AllocatePage; lastAlloc keeps what the call saw and
\* returned, pending loses the latest entry for the returned id.
RemoveLatest(s, id) ==
  LET at == {i \in 1..Len(s) : s[i] = id}
      last == CHOOSE i \in at : \A j \in at : j <= i
  IN  IF at = {} THEN s ELSE SubSeq(s, 1, last - 1) \o SubSeq(s, last + 1, Len(s))

CallAllocatePage ==
  \E pageType \in {BTreeLeafType, BTreeInternalType} :
    /\ m.pm.nextPage < MaxPages \/ Len(m.pm.freeList) > 0
    /\ LET a == AllocatePage(m.pm, pageType)
       IN  /\ m' = [m EXCEPT !.pm = a.pm]
           /\ lastAlloc' = [made |-> TRUE, pageID |-> a.pageID,
                            free |-> Len(m.pm.freeList), pending |-> pending,
                            before |-> m.pm.nextPage, after |-> a.pm.nextPage]
           /\ pending' = RemoveLatest(pending, a.pageID)
           /\ held' = [held EXCEPT !.ids = IF a.err THEN @ ELSE @ \cup {a.pageID},
                                   !.ever = @ \cup {a.pageID}]
           /\ written' = Wrote(written, "AllocatePage", a.pageID, pageType, <<>>, a.err)
    /\ UNCHANGED <<diskVars, tableVars, memVars, unitVars, dbVars>>

\* A direct call of pm.DeallocatePage, for any page id below MaxPages.
CallDeallocatePage ==
  \E pageID \in 0..(MaxPages - 1) :
    /\ Len(m.pm.freeList) < MaxFree
    /\ LET d == DeallocatePage(m.pm, pageID)
       IN  /\ m' = [m EXCEPT !.pm = d.pm]
           /\ pending' = IF d.err THEN pending ELSE Append(pending, pageID)
           /\ held' = [held EXCEPT !.strict = @ /\ pageID \in held.ids,
                                   !.known = @ /\ pageID \in held.ever,
                                   !.ids = IF d.err THEN @ ELSE @ \ {pageID}]
           /\ written' = Wrote(written, "DeallocatePage", pageID, FreePageType, <<>>, d.err)
    /\ UNCHANGED <<diskVars, tableVars, lastAlloc, memVars, unitVars, dbVars>>

\* What WritePage is given to write.
WriteInputs == {SomeBytes(n) : n \in 1..MaxWriteLen}

\* A direct call of pm.WritePage(p), p a page of the given id with data set.
CallWritePage ==
  \E pageID \in 0..(MaxPages - 1), data \in WriteInputs :
    LET p == SetData(NewPage(pageID, BTreeLeafType), data).page
        w == WritePage(m.pm, p)
    IN  /\ written.calls < MaxWrites
        /\ m' = [m EXCEPT !.pm = w.pm]
        /\ written' = Wrote(written, "WritePage", pageID, p.PageType, data, w.err)
        /\ held' = [held EXCEPT !.dirty = IF w.err THEN @ ELSE @ \cup {pageID}]
        /\ UNCHANGED <<diskVars, tableVars, pending, lastAlloc, memVars, unitVars, dbVars>>

\* The environment: writes to the file start or stop failing.
SetIO ==
  /\ m' = [m EXCEPT !.pm.ioOk = ~@]
  /\ UNCHANGED <<diskVars, pmVars, tableVars, memVars, unitVars, dbVars>>

\* The environment: file.Sync() starts or stops failing.
SetSync ==
  /\ m' = [m EXCEPT !.pm.syncOk = ~@]
  /\ UNCHANGED <<diskVars, pmVars, tableVars, memVars, unitVars, dbVars>>

\* The environment: the operating system writes what WriteAt left in its
\* cache to stable storage, without a Sync.
Writeback ==
  /\ m.pm.stable # m.pm.file
  /\ m' = [m EXCEPT !.pm.stable = m.pm.file]
  /\ UNCHANGED <<diskVars, pmVars, tableVars, memVars, unitVars, dbVars>>

\* The environment: the machine crashes.  The file is left with what was on
\* stable storage, and everything in the memory of the program is gone.
Crash ==
  /\ m.pm.open /\ opens < MaxOpens
  /\ m' = [pm |-> [m.pm EXCEPT !.file = m.pm.stable, !.open = FALSE],
           heap |-> <<>>, nodeToPageID |-> <<>>, trees |-> <<>>,
           dropped |-> FALSE]
  /\ dbt' = Nil
  /\ tbl' = NoTable
  /\ gor' = [g \in Goroutines |-> Idle]
  /\ iters' = [g \in Goroutines |-> NoDiskIterator]
  /\ locks' = {}
  /\ UNCHANGED <<dkv, saved, opens, pmVars, memVars, unitVars, dbVars>>

\* ------------------------------------------------------------ disk tree calls
\* dbt, err := NewDiskBTree(pm)
CallNewDiskBTree ==
  /\ dbt = Nil /\ m.pm.open
  /\ m.pm.nextPage < MaxPages /\ Len(m.heap) < MaxNodes
  /\ LET r == NewDiskBTree(m)
     IN  /\ m' = r.m
         /\ dbt' = r.dbt
  /\ dkv' = <<>>
  /\ UNCHANGED <<pmVars, tableVars, saved, opens, memVars, unitVars, dbVars>>

\* A call that loads the root from the file needs room for one more node.
DiskCallable ==
  /\ dbt # Nil
  /\ m.trees[dbt].rootID \in DOMAIN m.trees[dbt].cache \/ Len(m.heap) < MaxNodes

\* dbt.Set(key, val)
CallDiskSet(K) ==
  \E key \in K, val \in 1..MaxDiskVal :
    /\ DiskCallable
    /\ m' = DiskSet(m, dbt, key, val)
    /\ dkv' = Put(dkv, key, val)
    /\ UNCHANGED <<pmVars, tableVars, dbt, saved, opens, memVars, unitVars, dbVars>>

\* dbt.Set(key, val) with a value of PayloadSize bytes
CallDiskSetLong(K) ==
  \E key \in K :
    /\ DiskCallable
    /\ m' = DiskSet(m, dbt, key, LongBytes)
    /\ dkv' = Put(dkv, key, LongBytes)
    /\ UNCHANGED <<pmVars, tableVars, dbt, saved, opens, memVars, unitVars, dbVars>>

\* dbt.Delete(key); at most MaxDiskDeletes keys are in the deleted state.
CallDiskDelete(K) ==
  \E key \in K :
    /\ DiskCallable
    /\ Cardinality({k \in DOMAIN dkv : k # key /\ dkv[k] = Nil}) < MaxDiskDeletes
    /\ m' = DiskDelete(m, dbt, key)
    /\ dkv' = Put(dkv, key, Nil)
    /\ UNCHANGED <<pmVars, tableVars, dbt, saved, opens, memVars, unitVars, dbVars>>

\* dbt.Get(key): it changes the state when it loads the root into the cache.
CallDiskGet(K) ==
  \E key \in K :
    /\ DiskCallable
    /\ m' = DiskGet(m, dbt, key).m
    /\ UNCHANGED <<diskVars, pmVars, tableVars, memVars, unitVars, dbVars>>

\* dbt.Close()
CallDiskClose ==
  /\ dbt # Nil
  /\ m' = DiskClose(m, dbt)
  /\ UNCHANGED <<diskVars, pmVars, tableVars, memVars, unitVars, dbVars>>

\* The keys Get finds in the tree, with the values it returns for them.
Retrievable ==
  LET found == {k \in 1..MaxDiskKey : DiskGet(m, dbt, k).ok}
  IN  [k \in found |-> DiskGet(m, dbt, k).val]

\* dbt.Close(); pm.Close(): the end of a session.  saved keeps what Get
\* returned just before; the tree handle dies with its page manager.
CallClose ==
  /\ dbt # Nil /\ m.pm.open
  /\ saved' = Retrievable
  /\ m' = [DiskClose(m, dbt) EXCEPT !.pm = PageManagerClose(@)]
  /\ dbt' = Nil
  /\ dkv' = <<>>
  /\ UNCHANGED <<pmVars, tableVars, opens, memVars, unitVars, dbVars>>

\* pm, err := NewPageManager(filename) on the file of the closed manager.
CallNewPageManager ==
  /\ ~m.pm.open /\ opens < MaxOpens
  /\ m' = [m EXCEPT !.pm = NewPageManager(m.pm.file, m.pm.stable, m.pm.ioOk, m.pm.syncOk).pm]
  /\ opens' = opens + 1
  /\ pending' = <<>>
  /\ held' = [NoneHeld EXCEPT !.dirty = held.dirty]
  /\ written' = IF Len(m.pm.file) = 0
                THEN Wrote(written, "NewPageManager", 0, MetaPageType, MetaMagic,
                           ~m.pm.open')
                ELSE written
  /\ UNCHANGED <<lastAlloc, tableVars, dbt, dkv, saved, memVars, unitVars, dbVars>>

\* table, err := NewTable(name, pm)
CallNewTable ==
  /\ tbl = NoTable /\ m.pm.open
  /\ LET r == NewDiskBTree(m)
     IN  /\ m' = r.m
         /\ tbl' = [tbl EXCEPT !.btree = r.dbt]
  /\ UNCHANGED <<locks, diskVars, pmVars, gor, iters, memVars, unitVars, dbVars>>

\* A goroutine enters Insert, Update or Delete: t.mu.Lock().
TableLock(g) ==
  \E op \in Writers, key \in 1..MaxTableKey, val \in 1..MaxTableVal :
    /\ tbl.btree # Nil /\ gor[g].pc = "idle"
    /\ tbl.writer = Nil /\ tbl.readers = 0
    /\ tbl' = [tbl EXCEPT !.writer = g]
    /\ gor' = [gor EXCEPT ![g] = [pc |-> op, key |-> key,
                                  val |-> IF op = "Delete" THEN Nil ELSE val]]
    /\ UNCHANGED <<locks, m, diskVars, pmVars, iters, memVars, unitVars, dbVars>>

\* A goroutine enters Select or Scan: t.mu.RLock().  Scan starts at one of
\* the keys or at the empty key.
TableRLock(g) ==
  \E op \in Readers, key \in {EmptyBytes} \cup 1..MaxTableKey :
    /\ tbl.btree # Nil /\ gor[g].pc = "idle"
    /\ tbl.writer = Nil
    /\ op = "Select" => key # EmptyBytes
    /\ tbl' = [tbl EXCEPT !.readers = @ + 1]
    /\ gor' = [gor EXCEPT ![g] = [pc |-> op, key |-> key, val |-> Nil]]
    /\ UNCHANGED <<locks, m, diskVars, pmVars, iters, memVars, unitVars, dbVars>>

\* The body of Insert, Update or Delete, under the lock.
TableWrite(g) ==
  /\ gor[g].pc \in Writers
  /\ LET t == tbl.btree
         key == gor[g].key
     IN  m' = CASE gor[g].pc = "Insert" -> TableInsert(m, t, key, gor[g].val).m
                [] gor[g].pc = "Update" -> TableUpdate(m, t, key, gor[g].val).m
                [] gor[g].pc = "Delete" -> TableDelete(m, t, key).m
  /\ gor' = [gor EXCEPT ![g].pc = "Unlock"]
  /\ UNCHANGED <<locks, diskVars, pmVars, tbl, iters, memVars, unitVars, dbVars>>

\* The body of Select or Scan, under the read lock.  Scan hands the
\* iterator of FindLarger to the caller.
TableRead(g) ==
  /\ gor[g].pc \in Readers
  /\ IF gor[g].pc = "Select"
     THEN /\ m' = TableSelect(m, tbl.btree, gor[g].key).m
          /\ iters' = iters
     ELSE LET r == DiskFindLarger(m, tbl.btree, gor[g].key)
          IN  /\ m' = r.m
              /\ iters' = [iters EXCEPT ![g] = r.it]
  /\ gor' = [gor EXCEPT ![g].pc = "RUnlock"]
  /\ UNCHANGED <<locks, diskVars, pmVars, tbl, memVars, unitVars, dbVars>>

\* defer t.mu.Unlock() / defer t.mu.RUnlock(): the call returns.
TableUnlock(g) ==
  /\ gor[g].pc \in {"Unlock", "RUnlock"}
  /\ tbl' = IF gor[g].pc = "Unlock" THEN [tbl EXCEPT !.writer = Nil]
            ELSE [tbl EXCEPT !.readers = @ - 1]
  /\ gor' = [gor EXCEPT ![g] = Idle]
  /\ UNCHANGED <<locks, m, diskVars, pmVars, iters, memVars, unitVars, dbVars>>

\* The caller of Scan calls Next or ContainsNext on its iterator: no lock is
\* taken.  The call loads the node and, for Next, checks the index against
\* NumKeys; Next on an exhausted position returns (nil, nil) at once.
IterEnter(g) ==
  \E call \in {"Next", "ContainsNext"} :
    /\ gor[g].pc = "idle"
    /\ iters[g].current # InvalidPageID
    /\ LET l == loadNode(m, iters[g].dbt, iters[g].current)
       IN  /\ ~l.err
           /\ m' = l.m
           /\ gor' = IF call = "Next" /\ iters[g].index >= l.m.heap[l.node].NumKeys
                     THEN gor
                     ELSE [gor EXCEPT ![g].pc = call]
    /\ UNCHANGED <<locks, diskVars, pmVars, tbl, iters, memVars, unitVars, dbVars>>

\* The rest of the call: Next reads the entry and advances, ContainsNext
\* compares the index with NumKeys.
IterExit(g) ==
  /\ gor[g].pc \in {"Next", "ContainsNext"}
  /\ iters' = IF gor[g].pc = "Next"
              THEN [iters EXCEPT ![g] = DiskNextRead(m, iters[g]).it]
              ELSE iters
  /\ gor' = [gor EXCEPT ![g] = Idle]
  /\ UNCHANGED <<locks, m, diskVars, pmVars, tbl, memVars, unitVars, dbVars>>

\* ---------------------------------------------------------- database calls
\* What Select finds in the table t, for the keys of K.
Contents(mm, t, K) ==
  [key \in {k \in K : TableSelect(mm, t, k).ok} |-> TableSelect(mm, t, key).val]

\* db.CreateTable(name)
CallCreateTable(N) ==
  \E name \in N :
    LET r == CreateTable(m, db, name)
    IN  /\ m.pm.nextPage <= MaxCreates
        /\ m' = r.m
        /\ db' = r.db
        /\ rows' = IF r.err = "nil" THEN Put(rows, name, <<>>) ELSE rows
        /\ tret' = [NoCall EXCEPT !.op = "CreateTable", !.name = name, !.err = r.err,
                                  !.dels = tret.dels]
        /\ UNCHANGED <<diskVars, pmVars, tableVars, memVars, unitVars>>

\* db.GetTable(name)
CallGetTable(N) ==
  \E name \in N :
    /\ tret' = [NoCall EXCEPT !.op = "GetTable", !.name = name,
                              !.err = GetTable(db, name).err, !.dels = tret.dels]
    /\ UNCHANGED <<m, db, rows, diskVars, pmVars, tableVars, memVars, unitVars>>

\* db.DropTable(name)
CallDropTable(N) ==
  \E name \in N :
    LET r == DropTable(m, db, name)
    IN  /\ m' = r.m
        /\ db' = r.db
        /\ rows' = IF r.err = "nil" THEN Without(rows, name) ELSE rows
        /\ tret' = [NoCall EXCEPT !.op = "DropTable", !.name = name, !.err = r.err,
                                  !.dels = tret.dels]
        /\ UNCHANGED <<diskVars, pmVars, tableVars, memVars, unitVars>>

\* Insert, Update or Delete on the table the database has under a name.
CallTableWrite(N, K, V) ==
  \E name \in N \cap DOMAIN db.tables, op \in Writers, key \in K, val \in V :
    /\ op = "Delete" => val = 1 /\ tret.dels < MaxRowDeletes
    /\ \E r \in {CASE op = "Insert" ->
                        TableInsert([m EXCEPT !.dropped = FALSE], db.tables[name], key, val)
                   [] op = "Update" ->
                        TableUpdate([m EXCEPT !.dropped = FALSE], db.tables[name], key, val)
                   [] op = "Delete" ->
                        TableDelete([m EXCEPT !.dropped = FALSE], db.tables[name], key)} :
         /\ m' = [r.m EXCEPT !.dropped = FALSE]
         /\ rows' = IF r.err # "nil" THEN rows
                    ELSE IF op = "Delete" THEN [rows EXCEPT ![name] = Without(@, key)]
                    ELSE [rows EXCEPT ![name] = Put(@, key, val)]
         /\ tret' = [NoCall EXCEPT !.op = op, !.name = name, !.key = key,
                                   !.val = IF op = "Delete" THEN Nil ELSE val,
                                   !.found = key \in DOMAIN rows[name],
                                   !.err = r.err, !.dropped = r.m.dropped,
                                   !.dels = tret.dels + (IF op = "Delete" THEN 1 ELSE 0)]
    /\ UNCHANGED <<db, diskVars, pmVars, tableVars, memVars, unitVars>>

\* Select on the table the database has under a name.
CallTableSelect(N, K) ==
  \E name \in N \cap DOMAIN db.tables, key \in K :
    LET r == TableSelect(m, db.tables[name], key)
    IN  /\ m' = r.m
        /\ tret' = [NoCall EXCEPT !.op = "Select", !.name = name, !.key = key,
                                  !.val = r.val, !.found = r.ok, !.dels = tret.dels]
        /\ UNCHANGED <<db, rows, diskVars, pmVars, tableVars, memVars, unitVars>>

\* ------------------------------------------------- goroutines on a Database
\* The calls of a Database and of its Tables made by goroutines, step by
\* step.  gor[g] of a goroutine in a call is [pc, op, name, t, key, val, node,
\* pageID, next, rest]: pc the statement it is about to run, t the table (its
\* DiskBTree), node and pageID the locals of loadNode and saveNode, next
\* where the call goes on after the page manager or the map, rest the tables
\* Database.Close has still to close.  locks holds the mutexes taken: db.mu
\* (kind "db"), t.mu of the table t (kind "table") and pm.mu (kind "pm").
DatabaseOps == {"CreateTable", "GetTable", "DropTable", "ListTables", "Database.Close"}
TableOps == Writers \cup Readers \cup {"Table.Close"}

Calling(pc, op, name, t, key, val) ==
  [pc |-> pc, op |-> op, name |-> name, t |-> t, key |-> key, val |-> val,
   node |-> Nil, pageID |-> InvalidPageID, next |-> "return", rest |-> {}]

\* A call that has only its deferred Unlock left: its locals are dead.
Leaving(r, pc) == Calling(pc, "return", Nil, r.t, Nil, Nil)

\* The runtime has stopped the process: 'fatal error: concurrent map writes'
\* or 'concurrent map read and map write'.
Crashed == \E g \in Goroutines : gor[g].pc = "fatal"

\* The tables whose construction is complete: what a goroutine can have got
\* from CreateTable or GetTable, a dropped table included.
Handles(mm) == {t \in 1..Len(mm.trees) : mm.trees[t].rootID # 0}

Mutex(kind, t) == {l \in locks : l.kind = kind /\ l.t = t}

\* mu.Lock() goes through when nobody holds mu, mu.RLock() when no writer does.
CanLock(kind, t, mode) ==
  IF mode = "w" THEN Mutex(kind, t) = {} ELSE \A l \in Mutex(kind, t) : l.mode = "r"

Locked(kind, t, g, mode) ==
  locks \cup {[kind |-> kind, t |-> t, g |-> g, mode |-> mode]}

Unlocked(kind, t, g) ==
  {l \in locks : ~(l.kind = kind /\ l.t = t /\ l.g = g)}

\* The statements that use the package-level map nodeToPageID.
AtMap(g) == gor[g].pc \in {"setNodePageID", "getPageIDFromNode"}

\* Another goroutine is about to use the map as well, and one of the two
\* writes it: nothing orders the two accesses.
Racing(g) ==
  \E h \in Goroutines \ {g} :
    AtMap(h) /\ (gor[g].pc = "setNodePageID" \/ gor[h].pc = "setNodePageID")

\* What a map access may do: run, or, when it races, stop the process.
MapOutcomes(g) == IF Racing(g) THEN {"done", "fatal"} ELSE {"done"}

\* A goroutine calls Insert, Update, Delete, Select, Scan or Close of a table:
\* one of Ops, on one of the tables T it has got from the database.
GoCallTable(g, Ops, T) ==
  \E op \in Ops, t \in T \cap Handles(m), key \in 1..MaxDBKey, val \in 1..MaxDBVal :
    /\ gor[g].pc = "idle" /\ ~Crashed
    /\ op = "Table.Close" => Len(m.heap) < MaxGoNodes
    /\ gor' = [gor EXCEPT ![g] = Calling("t.Lock", op, Nil, t, key, val)]
    /\ UNCHANGED <<m, locks, tbl, iters, diskVars, pmVars, memVars, unitVars, dbVars>>

\* A goroutine calls CreateTable, GetTable, DropTable, ListTables or Close of
\* the database: one of Ops.
GoCallDatabase(g, Ops) ==
  \E op \in Ops, name \in 1..MaxGoTables :
    /\ gor[g].pc = "idle" /\ ~Crashed
    /\ op = "CreateTable" => m.pm.nextPage <= MaxGoCreates
    /\ op = "DropTable" => Len(m.heap) < MaxGoNodes
    /\ gor' = [gor EXCEPT ![g] = Calling("db.Lock", op, name, Nil, Nil, Nil)]
    /\ UNCHANGED <<m, locks, tbl, iters, diskVars, pmVars, memVars, unitVars, dbVars>>

\* db.mu.Lock() or db.mu.RLock()
GoLockDatabase(g) ==
  /\ gor[g].pc = "db.Lock" /\ ~Crashed
  /\ LET mode == IF gor[g].op \in {"GetTable", "ListTables"} THEN "r" ELSE "w"
     IN  /\ CanLock("db", 0, mode)
         /\ locks' = Locked("db", 0, g, mode)
  /\ gor' = [gor EXCEPT ![g].pc = gor[g].op]
  /\ UNCHANGED <<m, tbl, iters, diskVars, pmVars, memVars, unitVars, dbVars>>

\* The bodies of GetTable and ListTables read db.tables.
GoReadDatabase(g) ==
  /\ gor[g].pc \in {"GetTable", "ListTables"} /\ ~Crashed
  /\ gor' = [gor EXCEPT ![g] = Leaving(@, "db.Unlock")]
  /\ UNCHANGED <<m, locks, tbl, iters, diskVars, pmVars, memVars, unitVars, dbVars>>

\* CreateTable after the lock: the name is taken, or NewTable, NewDiskBTree
\* and pm.AllocatePage are entered.
GoCreateTable(g) ==
  /\ gor[g].pc = "CreateTable" /\ ~Crashed
  /\ gor' = IF gor[g].name \in DOMAIN db.tables
            THEN [gor EXCEPT ![g] = Leaving(@, "db.Unlock")]
            ELSE [gor EXCEPT ![g].pc = "pm.Lock", ![g].next = "AllocatePage"]
  /\ UNCHANGED <<m, locks, tbl, iters, diskVars, pmVars, memVars, unitVars, dbVars>>

\* DropTable after the lock: the name is absent, or table.Close() is entered.
GoDropTable(g) ==
  /\ gor[g].pc = "DropTable" /\ ~Crashed
  /\ gor' = IF gor[g].name \notin DOMAIN db.tables
            THEN [gor EXCEPT ![g] = Leaving(@, "db.Unlock")]
            ELSE [gor EXCEPT ![g].pc = "t.Lock", ![g].t = db.tables[gor[g].name]]
  /\ UNCHANGED <<m, locks, tbl, iters, diskVars, pmVars, memVars, unitVars, dbVars>>

\* Database.Close after the lock and after each table: the next table of the
\* loop over db.tables, in any order, and then db.pm.Close().
GoCloseDatabase(g) ==
  /\ gor[g].pc = "Database.Close" /\ ~Crashed
  /\ LET rest == IF gor[g].t = Nil THEN {db.tables[n] : n \in DOMAIN db.tables}
                 ELSE gor[g].rest
     IN  IF rest = {}
         THEN gor' = [gor EXCEPT ![g].pc = "pm.Lock", ![g].next = "PageManager.Close"]
         ELSE \E t \in rest :
                gor' = [gor EXCEPT ![g].pc = "t.Lock", ![g].t = t,
                                   ![g].rest = rest \ {t}]
  /\ UNCHANGED <<m, locks, tbl, iters, diskVars, pmVars, memVars, unitVars, dbVars>>

\* t.mu.Lock() or t.mu.RLock()
GoLockTable(g) ==
  /\ gor[g].pc = "t.Lock" /\ ~Crashed
  /\ LET mode == IF gor[g].op \in Readers THEN "r" ELSE "w"
     IN  /\ CanLock("table", gor[g].t, mode)
         /\ locks' = Locked("table", gor[g].t, g, mode)
  /\ gor' = [gor EXCEPT ![g].pc = IF gor[g].op \in Writers \cup Readers
                                  THEN "loadNode" ELSE "Table.Close"]
  /\ UNCHANGED <<m, tbl, iters, diskVars, pmVars, memVars, unitVars, dbVars>>

\* The body of Table.Close and its deferred Unlock; DropTable then deletes
\* the name.
GoCloseTable(g) ==
  /\ gor[g].pc = "Table.Close" /\ ~Crashed
  /\ m' = DiskClose(m, gor[g].t)
  /\ locks' = Unlocked("table", gor[g].t, g)
  /\ db' = IF gor[g].op = "DropTable"
           THEN [db EXCEPT !.tables = [n \in DOMAIN @ \ {gor[g].name} |-> @[n]]]
           ELSE db
  /\ gor' = [gor EXCEPT ![g] = IF gor[g].op = "Table.Close" THEN Idle
                               ELSE IF gor[g].op = "DropTable"
                               THEN Leaving(@, "db.Unlock")
                               ELSE [@ EXCEPT !.pc = "Database.Close"]]
  /\ UNCHANGED <<rows, tret, tbl, iters, diskVars, pmVars, memVars, unitVars>>

\* dbt.loadNode(dbt.rootID): the node of the cache, or pm.ReadPage.
GoLoadNode(g) ==
  /\ gor[g].pc = "loadNode" /\ ~Crashed
  /\ LET t == gor[g].t
         rootID == m.trees[t].rootID
     IN  gor' = IF rootID \in DOMAIN m.trees[t].cache
                THEN [gor EXCEPT ![g].pc = "search",
                                 ![g].node = m.trees[t].cache[rootID]]
                ELSE [gor EXCEPT ![g].pc = "pm.Lock", ![g].next = "ReadPage",
                                 ![g].pageID = rootID]
  /\ UNCHANGED <<m, locks, tbl, iters, diskVars, pmVars, memVars, unitVars, dbVars>>

\* pm.mu.Lock() of AllocatePage, ReadPage, WritePage or PageManager.Close
GoLockPM(g) ==
  /\ gor[g].pc = "pm.Lock" /\ ~Crashed
  /\ CanLock("pm", 0, "w")
  /\ locks' = Locked("pm", 0, g, "w")
  /\ gor' = [gor EXCEPT ![g].pc = gor[g].next]
  /\ UNCHANGED <<m, tbl, iters, diskVars, pmVars, memVars, unitVars, dbVars>>

\* pm.AllocatePage of NewDiskBTree and its Unlock, then the new root leaf and
\* saveNode up to pm.WritePage.
GoAllocatePage(g) ==
  /\ gor[g].pc = "AllocatePage" /\ ~Crashed
  /\ \E a \in {AllocatePage(m.pm, BTreeLeafType)} :
       IF a.err
       THEN /\ m' = [m EXCEPT !.pm = a.pm]
            /\ gor' = [gor EXCEPT ![g] = Leaving(@, "db.Unlock")]
       ELSE /\ m' = [m EXCEPT !.pm = a.pm,
                              !.trees = Append(@, [rootID |-> 0, cache |-> NoCache]),
                              !.heap = Append(@, NewLeafNode)]
            /\ gor' = [gor EXCEPT ![g].pc = "pm.Lock", ![g].next = "WritePage",
                                  ![g].t = Len(m.trees) + 1,
                                  ![g].node = Len(m.heap) + 1,
                                  ![g].pageID = a.pageID]
  /\ locks' = Unlocked("pm", 0, g)
  /\ UNCHANGED <<tbl, iters, diskVars, pmVars, memVars, unitVars, dbVars>>

\* pm.ReadPage of loadNode and its Unlock, then DeserializeNode.
GoReadPage(g) ==
  /\ gor[g].pc = "ReadPage" /\ ~Crashed
  /\ LET r == ReadPage(m.pm, gor[g].pageID)
         d == DeserializeNode(GetData(r.page))
     IN  IF r.err \/ d.err
         THEN /\ m' = m
              /\ gor' = [gor EXCEPT ![g] = Leaving(@, "t.Unlock")]
         ELSE /\ m' = [m EXCEPT !.heap = Append(@, d.node)]
              /\ gor' = [gor EXCEPT ![g].pc = "setNodePageID", ![g].next = "search",
                                    ![g].node = Len(m.heap) + 1]
  /\ locks' = Unlocked("pm", 0, g)
  /\ UNCHANGED <<tbl, iters, diskVars, pmVars, memVars, unitVars, dbVars>>

\* The body of Get, Set, Delete or FindLarger on the loaded root, up to
\* saveNodeFromCache: Update and Delete return when Get does not find the
\* key, Insert stores nothing in a full leaf.
GoSearch(g) ==
  /\ gor[g].pc = "search" /\ ~Crashed
  /\ \E key \in {gor[g].key}, leaf \in {m.heap[gor[g].node]} :
     \E index \in {DiskFindKeyIndex(leaf, key)} :
     \E found \in {DiskKeyFound(leaf, index, key)} :
     \E saves \in {CASE gor[g].op = "Insert" -> found \/ leaf.NumKeys < MaxKeys
                     [] gor[g].op \in {"Update", "Delete"} -> found
                     [] gor[g].op = "Scan" ->
                          DiskSkipNotLarger(leaf, index, key) < leaf.NumKeys
                     [] OTHER -> FALSE} :
         /\ m' = CASE saves /\ gor[g].op \in {"Insert", "Update"} /\ found ->
                        [m EXCEPT !.heap[gor[g].node].Values[index + 1] = gor[g].val]
                   [] saves /\ gor[g].op = "Insert" /\ ~found ->
                        [m EXCEPT !.heap[gor[g].node] =
                                     DiskShiftedIn(leaf, key, gor[g].val, index)]
                   [] saves /\ gor[g].op = "Delete" ->
                        [m EXCEPT !.heap[gor[g].node] = DiskShiftedOut(leaf, index)]
                   [] OTHER -> m
         /\ gor' = IF saves THEN [gor EXCEPT ![g].pc = "getPageIDFromNode"]
                   ELSE [gor EXCEPT ![g] = Leaving(@, "t.Unlock")]
  /\ UNCHANGED <<locks, tbl, iters, diskVars, pmVars, memVars, unitVars, dbVars>>

\* dbt.getPageIDFromNode(node): FindLarger returns an iterator with the id,
\* saveNodeFromCache goes on to saveNode and pm.WritePage with it.
GoGetPageIDFromNode(g) ==
  \E outcome \in MapOutcomes(g) :
    /\ gor[g].pc = "getPageIDFromNode" /\ ~Crashed
    /\ LET node == gor[g].node
           pageID == getPageIDFromNode(m, node)
           s == SerializeNode(m.heap[node])
           d == SetData(NewPage(pageID, BTreeLeafType), s.data)
       IN  /\ gor' = IF outcome = "fatal" THEN [gor EXCEPT ![g].pc = "fatal"]
                     ELSE IF gor[g].op = "Scan" \/ pageID = InvalidPageID
                             \/ s.err \/ d.err
                     THEN [gor EXCEPT ![g] = Leaving(@, "t.Unlock")]
                     ELSE [gor EXCEPT ![g].pc = "pm.Lock", ![g].next = "WritePage",
                                      ![g].pageID = pageID]
    /\ UNCHANGED <<m, locks, tbl, iters, diskVars, pmVars, memVars, unitVars, dbVars>>

\* page.SetData and pm.WritePage of saveNode, and the Unlock of pm.mu.  When
\* the write fails NewDiskBTree drops its tree, Set and Delete drop the error.
GoWritePage(g) ==
  /\ gor[g].pc = "WritePage" /\ ~Crashed
  /\ \E s \in {SerializeNode(m.heap[gor[g].node])} :
     \E d \in {SetData(NewPage(gor[g].pageID,
                                IF IsLeaf(m.heap[gor[g].node]) THEN BTreeLeafType
                                ELSE BTreeInternalType), s.data)} :
     \E w \in {WritePage(m.pm, d.page)} :
           IF w.err
           THEN /\ m' = IF gor[g].op = "CreateTable"
                        THEN [m EXCEPT !.pm = w.pm,
                                       !.trees = SubSeq(@, 1, Len(@) - 1)]
                        ELSE [m EXCEPT !.pm = w.pm]
                /\ gor' = [gor EXCEPT ![g] = IF gor[g].op = "CreateTable"
                                             THEN Leaving(@, "db.Unlock")
                                             ELSE Leaving(@, "t.Unlock")]
           ELSE /\ m' = [m EXCEPT !.pm = w.pm]
                /\ gor' = [gor EXCEPT ![g].pc = "setNodePageID", ![g].next = "return"]
  /\ locks' = Unlocked("pm", 0, g)
  /\ UNCHANGED <<tbl, iters, diskVars, pmVars, memVars, unitVars, dbVars>>

\* dbt.setNodePageID(node, pageID) and dbt.cache[pageID] = node, of loadNode
\* and of saveNode; NewDiskBTree then sets rootID and CreateTable puts the
\* table under its name.
GoSetNodePageID(g) ==
  \E outcome \in MapOutcomes(g) :
    /\ gor[g].pc = "setNodePageID" /\ ~Crashed
    /\ LET t == gor[g].t
           creates == gor[g].op = "CreateTable"
       IN  IF outcome = "fatal"
           THEN /\ gor' = [gor EXCEPT ![g].pc = "fatal"]
                /\ UNCHANGED <<m, db>>
           ELSE /\ m' = [m EXCEPT !.nodeToPageID = Put(@, gor[g].node, gor[g].pageID),
                                  !.trees[t].cache = Put(@, gor[g].pageID, gor[g].node),
                                  !.trees[t].rootID = IF creates THEN gor[g].pageID ELSE @]
                /\ db' = IF creates THEN [db EXCEPT !.tables = Put(@, gor[g].name, t)]
                         ELSE db
                /\ gor' = [gor EXCEPT ![g] = IF creates THEN Leaving(@, "db.Unlock")
                                             ELSE IF gor[g].next = "search"
                                             THEN [@ EXCEPT !.pc = "search"]
                                             ELSE Leaving(@, "t.Unlock")]
    /\ UNCHANGED <<rows, tret, locks, tbl, iters, diskVars, pmVars, memVars, unitVars>>

\* pm.Close() of Database.Close and its Unlock.
GoClosePageManager(g) ==
  /\ gor[g].pc = "PageManager.Close" /\ ~Crashed
  /\ m' = [m EXCEPT !.pm = PageManagerClose(@)]
  /\ locks' = Unlocked("pm", 0, g)
  /\ gor' = [gor EXCEPT ![g] = Leaving(@, "db.Unlock")]
  /\ UNCHANGED <<tbl, iters, diskVars, pmVars, memVars, unitVars, dbVars>>

\* The deferred t.mu.Unlock() or t.mu.RUnlock(): the call returns.
GoUnlockTable(g) ==
  /\ gor[g].pc = "t.Unlock" /\ ~Crashed
  /\ locks' = Unlocked("table", gor[g].t, g)
  /\ gor' = [gor EXCEPT ![g] = Idle]
  /\ UNCHANGED <<m, tbl, iters, diskVars, pmVars, memVars, unitVars, dbVars>>

\* The deferred db.mu.Unlock() or db.mu.RUnlock(): the call returns.
GoUnlockDatabase(g) ==
  /\ gor[g].pc = "db.Unlock" /\ ~Crashed
  /\ locks' = Unlocked("db", 0, g)
  /\ gor' = [gor EXCEPT ![g] = Idle]
  /\ UNCHANGED <<m, tbl, iters, diskVars, pmVars, memVars, unitVars, dbVars>>

\* A step of a call of a table that g has made.
GoRunTable(g) ==
  \/ GoLockTable(g) \/ GoLoadNode(g) \/ GoSearch(g) \/ GoGetPageIDFromNode(g)
  \/ GoLockPM(g) \/ GoWritePage(g) \/ GoSetNodePageID(g) \/ GoUnlockTable(g)

\* A step of any call that g has made.
GoRun(g) ==
  \/ GoRunTable(g)
  \/ GoLockDatabase(g) \/ GoReadDatabase(g) \/ GoCreateTable(g) \/ GoDropTable(g)
  \/ GoCloseDatabase(g) \/ GoCloseTable(g) \/ GoAllocatePage(g) \/ GoReadPage(g)
  \/ GoClosePageManager(g) \/ GoUnlockDatabase(g)

\* --- SaveData, step by step, with failing calls and crashes
NoFiles ==
  [dir |-> <<>>, data |-> <<>>, ddir |-> <<>>, ddata |-> <<>>,
   pc |-> "idle", arg |-> <<>>, tmp |-> 0, fp |-> 0, err |-> "nil",
   prev |-> <<>>, seen |-> {<<>>}, saves |-> 0]

FileInit == fs = NoFiles

SaveInputs == {SomeBytes(n) : n \in 0..MaxSaveLen}

\* SaveData(pathName, data) is called: tempFile gets a name not used before.
\* prev is what pathName shows now, seen all it has shown at a call.
CallSaveData ==
  \E data \in SaveInputs :
    /\ fs.pc \in {"idle", "returned", "crashed"} /\ fs.saves < MaxSaves
    /\ fs' = [fs EXCEPT !.pc = "OpenFile", !.arg = data, !.tmp = fs.saves + 1,
                        !.fp = 0, !.err = "nil", !.prev = Shown(fs),
                        !.seen = @ \cup {Shown(fs)}, !.saves = @ + 1]
    /\ UNCHANGED <<memVars, storageVars, pageVars, codecVars>>

\* fp, err := os.OpenFile(tempFile, ..); on an error the function returns it
\* and the deferred function removes tempFile.
SaveOpenFile ==
  \E ok \in BOOLEAN :
    /\ fs.pc = "OpenFile"
    /\ fs' = IF ok
             THEN [OpenFile(fs, fs.tmp).f EXCEPT !.pc = "Write",
                                                   !.fp = OpenFile(fs, fs.tmp).fp]
             ELSE [SaveDataDeferred(fs, "open") EXCEPT !.pc = "returned", !.err = "open"]
    /\ UNCHANGED <<memVars, storageVars, pageVars, codecVars>>

\* fp.Write(data) writes all of data, or a part of it and fails; the error
\* is returned through the inner err, the deferred function sees nil.
SaveWrite ==
  \E n \in 0..Len(fs.arg) :
    /\ fs.pc = "Write"
    /\ fs' = IF n = Len(fs.arg)
             THEN [Write(fs, fs.fp, fs.arg) EXCEPT !.pc = "Sync"]
             ELSE [SaveDataDeferred(Write(fs, fs.fp, SubSeq(fs.arg, 1, n)), "nil")
                     EXCEPT !.pc = "returned", !.err = "write"]
    /\ UNCHANGED <<memVars, storageVars, pageVars, codecVars>>

\* fp.Sync(); its error is returned through the inner err as well.
SaveSync ==
  \E ok \in BOOLEAN :
    /\ fs.pc = "Sync"
    /\ fs' = IF ok
             THEN [Sync(fs, fs.fp) EXCEPT !.pc = "Rename"]
             ELSE [SaveDataDeferred(fs, "nil") EXCEPT !.pc = "returned", !.err = "sync"]
    /\ UNCHANGED <<memVars, storageVars, pageVars, codecVars>>

\* err = os.Rename(tempFile, pathName); return err
SaveRename ==
  \E ok \in BOOLEAN :
    /\ fs.pc = "Rename"
    /\ fs' = IF ok
             THEN [SaveDataDeferred(Rename(fs, fs.tmp, PathName), "nil")
                     EXCEPT !.pc = "returned", !.err = "nil"]
             ELSE [SaveDataDeferred(fs, "rename") EXCEPT !.pc = "returned", !.err = "rename"]
    /\ UNCHANGED <<memVars, storageVars, pageVars, codecVars>>

\* The environment: the file system commits its directory to stable storage.
CommitDirectory ==
  /\ fs.ddir # fs.dir
  /\ fs' = [fs EXCEPT !.ddir = fs.dir]
  /\ UNCHANGED <<memVars, storageVars, pageVars, codecVars>>

\* The environment: the operating system writes more of the content of a
\* file, or all of it, to stable storage.
FlushFile ==
  \E i \in 1..Len(fs.data), n \in 0..MaxSaveLen :
    /\ Len(fs.ddata[i]) < n /\ n <= Len(fs.data[i])
    /\ fs' = [fs EXCEPT !.ddata[i] = SubSeq(fs.data[i], 1, n)]
    /\ UNCHANGED <<memVars, storageVars, pageVars, codecVars>>

\* The environment: the machine crashes and comes up with what was on stable
\* storage; a call under way is gone.
CrashFiles ==
  /\ fs.pc \notin {"idle", "crashed"}
  /\ fs' = [fs EXCEPT !.dir = fs.ddir, !.data = fs.ddata, !.pc = "crashed",
                      !.fp = 0, !.err = "nil"]
  /\ UNCHANGED <<memVars, storageVars, pageVars, codecVars>>

\* --- Pages on their own: Serialize, Deserialize, SetData, GetData
NoBuf == [from |-> NewPage(0, FreePageType), out |-> [len |-> 0, bytes |-> <<>>]]
NoRet == [op |-> "none", before |-> NewPage(0, FreePageType), data |-> <<>>,
          page |-> NewPage(0, FreePageType), err |-> FALSE]

\* The page of a program that has not made one yet.
PageInit == pg = NewPage(0, FreePageType) /\ buf = NoBuf /\ ret = NoRet

\* Pages with any header: every field takes its extreme values and a usual
\* one, the payload is all zeros or full to its last byte.
PageInputs ==
  [ID : {0, 2},
   PageType : {FreePageType, MetaPageType, 255},
   Reserved : {0, 255},
   DataLength : {0, 65535},
   NextPage : {InvalidPageID, 2147483647},
   PrevPage : {InvalidPageID, 1},
   Checksum : {0, -2147483647},
   Data : {<<>>, SomeBytes(PayloadSize)}]

DataInputs ==
  {SomeBytes(n) : n \in (0..MaxSlack)
                        \cup ((PayloadSize - MaxSlack)..(PayloadSize + MaxSlack))}

\* buf := pg.Serialize()
CallSerialize ==
  /\ buf' = [from |-> pg, out |-> Serialize(pg)]
  /\ ret' = [NoRet EXCEPT !.op = "Serialize", !.before = pg]
  /\ UNCHANGED <<pg, memVars, storageVars, codecVars, fileVars>>

\* (&Page{ID: id}).Deserialize(buf)
CallDeserialize ==
  /\ buf # NoBuf
  /\ LET r == Deserialize(buf.from.ID, buf.out)
     IN  ret' = [NoRet EXCEPT !.op = "Deserialize", !.before = buf.from,
                              !.page = r.page, !.err = r.err]
  /\ UNCHANGED <<pg, buf, memVars, storageVars, codecVars, fileVars>>

\* pg.SetData(data)
CallSetData ==
  \E data \in DataInputs :
    LET r == SetData(pg, data)
    IN  /\ pg' = r.page
        /\ ret' = [NoRet EXCEPT !.op = "SetData", !.before = pg, !.data = data,
                                !.page = r.page, !.err = r.err]
        /\ UNCHANGED <<buf, memVars, storageVars, codecVars, fileVars>>

\* pg.GetData(); slicing the payload beyond its capacity panics.
CallGetData ==
  /\ ret' = IF pg.DataLength > PayloadSize
            THEN [NoRet EXCEPT !.op = "GetData", !.before = pg, !.err = TRUE]
            ELSE [NoRet EXCEPT !.op = "GetData", !.before = pg, !.data = GetData(pg)]
  /\ UNCHANGED <<pg, buf, memVars, storageVars, codecVars, fileVars>>

\* --- Nodes on their own: SerializeNode, DeserializeNode
NoNodeRet == [op |-> "none", data |-> <<>>, node |-> NewLeafNode, err |-> FALSE,
              fault |-> FALSE, size |-> 0]

\* The node of a program that has not made one yet.
CodecInit == nd = NewLeafNode /\ nret = NoNodeRet

\* Leaves and internal nodes with n keys, none of them nil, in the slots
\* 0..n-1; the values of a leaf are nil, empty or not, and it has a next leaf
\* or none.
CodecKeys == {EmptyBytes} \cup 1..MaxCodecKey
CodecValues == {Nil, EmptyBytes} \cup 1..MaxCodecVal
NodeInputs(n) ==
    {[NewLeafNode EXCEPT !.NumKeys = n,
                         !.Keys = [p \in 1..MaxKeys |-> IF p <= n THEN ks[p] ELSE Nil],
                         !.Values = [p \in 1..MaxKeys |-> IF p <= n THEN vs[p] ELSE Nil],
                         !.Next = nx]
         : ks \in [1..n -> CodecKeys], vs \in [1..n -> CodecValues], nx \in {Nil, 1}}
    \cup
    {[NewInternalNode EXCEPT !.NumKeys = n,
                             !.Keys = [p \in 1..MaxKeys |-> IF p <= n THEN ks[p] ELSE Nil]]
         : ks \in [1..n -> CodecKeys]}

\* data, err := SerializeNode(nd)
CallSerializeNode ==
  /\ LET r == SerializeNode(nd)
     IN  nret' = [NoNodeRet EXCEPT !.op = "SerializeNode", !.data = r.data, !.err = r.err]
  /\ UNCHANGED <<nd, pageVars, memVars, storageVars, fileVars>>

\* node, err := DeserializeNode(data)
CallDeserializeNode ==
  /\ nret.op = "SerializeNode" /\ ~nret.err
  /\ LET r == DeserializeNode(nret.data)
     IN  nret' = [nret EXCEPT !.op = "DeserializeNode", !.node = r.node, !.err = r.err,
                              !.fault = r.fault]
  /\ UNCHANGED <<nd, pageVars, memVars, storageVars, fileVars>>

\* size := EstimateNodeSize(nd)
CallEstimateNodeSize ==
  /\ nret' = [NoNodeRet EXCEPT !.op = "EstimateNodeSize", !.size = EstimateNodeSize(nd)]
  /\ UNCHANGED <<nd, pageVars, memVars, storageVars, fileVars>>

\* node, err := DeserializeNode(data) for the bytes the caller has
CallDeserializeBytes ==
  /\ nret.op = "bytes"
  /\ LET r == DeserializeNode(nret.data)
     IN  nret' = [nret EXCEPT !.op = "DeserializeBytes", !.node = r.node, !.err = r.err,
                              !.fault = r.fault]
  /\ UNCHANGED <<nd, pageVars, memVars, storageVars, fileVars>>

\* Byte strings of up to MaxBufLen tokens: a type byte, a key count that may
\* be more than a node has slots, lengths and bytes.
RECURSIVE BufferInputs(_)
BufferInputs(n) ==
  IF n = 0 THEN {<<>>}
  ELSE BufferInputs(n - 1)
       \cup {Append(b, x) : b \in {c \in BufferInputs(n - 1) : Len(c) = n - 1},
                            x \in {0, 1, MaxKeys + 1}}

\* --- Spec: Set and Delete on one tree
UnitInit == PageInit /\ CodecInit /\ FileInit
Init == TreeInit /\ StorageInit /\ UnitInit
NextTree ==
  \/ CallSet(1..MaxKey, 1..MaxVal)
  \/ CallDelete(1..MaxKey, MaxDeletes)
Spec == Init /\ [][NextTree]_vars

\* --- SpecScan: Set and Delete, then scans with FindLarger and Next
NextScan ==
  \/ CallSet(1..MaxKey, 1..MaxScanVal)
  \/ CallDelete(1..MaxKey, MaxDeletes)
  \/ CallFindLarger(0..MaxKey)
  \/ CallNext
  \/ LoopStep
  \/ Discard
SpecScan == Init /\ [][NextScan]_vars

\* --- SpecLoad: a larger key range, so that an internal node fills and splits
NextLoad ==
  \/ CallSet(1..LoadKeys, 1..MaxLoadVal)
  \/ CallDelete(1..LoadKeys, MaxLoadDeletes)
SpecLoad == Init /\ [][NextLoad]_vars

\* --- SpecPM: AllocatePage and DeallocatePage on one page manager
NextPM ==
  \/ CallAllocatePage
  \/ CallDeallocatePage
  \/ SetIO
SpecPM == Init /\ [][NextPM]_vars

\* --- SpecWrite: page writes, failures of the file, crashes and reopening
NextWrite ==
  \/ CallWritePage
  \/ written.calls < MaxWrites /\ CallAllocatePage
  \/ written.calls < MaxWrites /\ CallDeallocatePage
  \/ SetIO
  \/ SetSync
  \/ Writeback
  \/ Crash
  \/ CallNewPageManager
SpecWrite == Init /\ [][NextWrite]_vars

\* --- SpecDisk: one DiskBTree, with more keys than a leaf holds
NextDisk ==
  \/ CallNewDiskBTree
  \/ CallDiskSet(1..MaxDiskKey)
  \/ CallDiskDelete(1..MaxDiskKey)
  \/ CallDiskGet(1..MaxDiskKey)
  \/ CallDiskClose
SpecDisk == Init /\ [][NextDisk]_vars

\* --- SpecLong: one DiskBTree, with values of one byte and of PayloadSize bytes
NextLong ==
  \/ CallNewDiskBTree
  \/ CallDiskSet(1..MaxLongKey)
  \/ CallDiskSetLong(1..MaxLongKey)
  \/ CallDiskDelete(1..MaxLongKey)
  \/ CallDiskGet(1..MaxLongKey)
  \/ CallDiskClose
SpecLong == Init /\ [][NextLong]_vars

\* --- SpecReopen: sessions on one file, a DiskBTree in each
NextReopen ==
  \/ CallNewDiskBTree
  \/ CallDiskSet(1..MaxReopenKey)
  \/ CallDiskDelete(1..MaxReopenKey)
  \/ CallDiskGet(1..MaxReopenKey)
  \/ CallDiskClose
  \/ CallClose
  \/ CallNewPageManager
SpecReopen == Init /\ [][NextReopen]_vars

\* --- SpecTable: goroutines sharing one Table
NextTable ==
  \/ CallNewTable
  \/ \E g \in Goroutines : TableLock(g)
  \/ \E g \in Goroutines : TableRLock(g)
  \/ \E g \in Goroutines : TableWrite(g)
  \/ \E g \in Goroutines : TableRead(g)
  \/ \E g \in Goroutines : TableUnlock(g)
  \/ \E g \in Goroutines : IterEnter(g)
  \/ \E g \in Goroutines : IterExit(g)
SpecTable == Init /\ [][NextTable]_vars

\* --- SpecDB: the tables of a Database, with writes to the file failing or not
NextDB ==
  \/ CallCreateTable(1..MaxTables)
  \/ CallGetTable(1..MaxTables)
  \/ CallDropTable(1..MaxTables)
  \/ CallTableWrite(1..MaxTables, 1..MaxDBKey, 1..MaxDBVal)
  \/ CallTableSelect(1..MaxTables, 1..MaxDBKey)
  \/ SetIO
SpecDB == Init /\ [][NextDB]_vars

\* --- SpecGo: one goroutine calling the Database and reading its Tables,
\* one calling the Tables and reading the Database
NextGo ==
  \/ GoCallDatabase(1, DatabaseOps)
  \/ GoCallTable(1, {"Select"}, 1..MaxGoCreates)
  \/ GoCallDatabase(2, {"GetTable", "ListTables"})
  \/ GoCallTable(2, TableOps, 1..MaxGoCreates)
  \/ \E g \in Goroutines : GoRun(g)
SpecGo == Init /\ [][NextGo]_vars

\* The scheduler runs every goroutine that can run, and sync.Mutex and
\* sync.RWMutex hand a lock that is released again and again to each waiter
\* in the end (their starvation mode).
SpecGoFair == SpecGo /\ \A g \in Goroutines : SF_vars(GoRun(g))

\* --- SpecPair: two tables made one after the other, then goroutine g
\* reading and writing table g
NextPair ==
  \/ CallCreateTable(1..MaxTables)
  \/ \E g \in Goroutines : GoCallTable(g, Writers \cup Readers, {g})
  \/ \E g \in Goroutines : GoRunTable(g)
SpecPair == Init /\ [][NextPair]_vars

\* --- SpecRows: one table of a Database, with more keys than a leaf holds
NextRows ==
  \/ CallCreateTable({1})
  \/ CallTableWrite({1}, 1..MaxRowKey, 1..MaxRowVal)
SpecRows == Init /\ [][NextRows]_vars

\* --- SpecSave: SaveData calls on one path, failures and crashes
NextSave ==
  \/ CallSaveData
  \/ SaveOpenFile
  \/ SaveWrite
  \/ SaveSync
  \/ SaveRename
  \/ CommitDirectory
  \/ FlushFile
  \/ CrashFiles
SpecSave == Init /\ [][NextSave]_vars

\* --- SpecPage: Serialize and Deserialize, from any page
InitPage ==
  /\ TreeInit /\ StorageInit
  /\ pg \in PageInputs /\ buf = NoBuf /\ ret = NoRet
  /\ CodecInit /\ FileInit
NextPg ==
  \/ CallSerialize
  \/ CallDeserialize
SpecPage == InitPage /\ [][NextPg]_vars

\* --- SpecSetData: SetData and GetData, from a new page of any type
InitSetData ==
  /\ TreeInit /\ StorageInit
  /\ pg \in {NewPage(id, t) : id \in {0, 1},
                              t \in {FreePageType, BTreeLeafType,
                                     BTreeInternalType, MetaPageType}}
  /\ buf = NoBuf /\ ret = NoRet
  /\ CodecInit /\ FileInit
NextSetData ==
  \/ CallSetData
  \/ CallGetData
SpecSetData == InitSetData /\ [][NextSetData]_vars

\* --- SpecCodec: SerializeNode and DeserializeNode, from any node
InitCodec ==
  /\ TreeInit /\ StorageInit /\ PageInit /\ FileInit
  /\ \E n \in 0..MaxKeys : nd \in NodeInputs(n)
  /\ nret = NoNodeRet
NextCodec ==
  \/ CallSerializeNode
  \/ CallDeserializeNode
  \/ CallEstimateNodeSize
SpecCodec == InitCodec /\ [][NextCodec]_vars

\* --- SpecBytes: DeserializeNode of any byte string
InitBytes ==
  /\ TreeInit /\ StorageInit /\ PageInit /\ FileInit
  /\ nd = NewLeafNode
  /\ \E b \in BufferInputs(MaxBufLen) : nret = [NoNodeRet EXCEPT !.op = "bytes", !.data = b]
NextBytes == CallDeserializeBytes
SpecBytes == InitBytes /\ [][NextBytes]_vars

\* ====================================================================
\* Claims
\* ====================================================================

\* C1: Get(k) returns (v, true), v the value of the most recent Set(k, v)
\* that has not been followed by Delete(k), after any sequence of Set and
\* Delete calls, also once leaves and internal nodes have split.
C1_GetReturnsLatestSet ==
  ~bt.fault => \A k \in Present : Get(bt, k) = [val |-> kv[k], ok |-> TRUE]

\* C3: draining the iterator of FindLarger(k) yields exactly the present
\* keys greater than k, each once, ascending, with their current values.
C3_FindLargerYieldsAllLarger ==
  (scan.live /\ scan.mode = "drain" /\ scan.ended) =>
    LET want == {k \in Present : k > scan.from}
    IN  /\ Len(scan.out) = Cardinality(want)
        /\ \A i \in 1..Len(scan.out) :
             /\ scan.out[i][1] \in want
             /\ scan.out[i][2] = kv[scan.out[i][1]]
        /\ \A i, j \in 1..Len(scan.out) : i < j => scan.out[i][1] < scan.out[j][1]

\* C4: after Delete(k), Get(k) returns (nil, false) until the next Set(k, .);
\* a Delete of a key that is not present leaves Size and every Get as they were.
C4_DeleteRemovesAndFrames ==
  [][~bt'.fault =>
       /\ \A k \in DOMAIN kv' :
            kv'[k] = Nil => Get(bt', k) = [val |-> Nil, ok |-> FALSE]
       /\ \A k \in 1..LoadKeys :
            (dels' = dels + 1 /\ k \notin Present /\ DeleteStep(k)) =>
               /\ Size(bt') = Size(bt)
               /\ \A j \in 1..LoadKeys : Get(bt', j) = Get(bt, j)]_vars

\* C6: the loop `for iter.ContainsNext() { iter.Next() }` over an iterator
\* returned by FindLarger terminates: it never runs more iterations than
\* there are positions for the iterator to stand at (the tree does not change
\* and the loop is deterministic, so a longer run repeats a position forever).
C6_LoopTerminates ==
  (scan.live /\ scan.mode = "loop") => scan.steps <= ChainPositions(bt)

\* C7: ContainsNext() is true exactly when the following Next() returns a
\* non-nil key; at the end Next() returns (nil, nil) and ContainsNext() false.
C7_ContainsNextAgreesWithNext ==
  scan.live =>
    /\ ContainsNext(bt, it) <=> (Next(bt, it).key # Nil)
    /\ scan.ended => (~ContainsNext(bt, it) /\ Next(bt, it).key = Nil
                                            /\ Next(bt, it).val = Nil)

\* C8: Size() equals the number of distinct keys Set and not since Deleted.
C8_SizeCountsPresentKeys ==
  ~bt.fault => Size(bt) = Cardinality(Present)

\* C2: on a DiskBTree holding any number of distinct keys, Get(k) returns
\* (v, true), v the value of the most recent Set(k, v) not followed by a
\* Delete(k).
C2_DiskGetReturnsLatestSet ==
  (dbt # Nil /\ m.pm.open) =>
    \A k \in DOMAIN dkv :
      dkv[k] # Nil => /\ DiskGet(m, dbt, k).ok
                      /\ DiskGet(m, dbt, k).val = dkv[k]

\* C5: a key stored with Set before Close is retrievable after the file is
\* reopened with NewPageManager: in a later session the tree returns, for
\* every key the session has not touched, what Get returned before the Close.
C5_StoredKeysSurviveReopen ==
  (dbt # Nil /\ m.pm.open /\ opens > 1) =>
    \A k \in DOMAIN saved :
      k \notin DOMAIN dkv => /\ DiskGet(m, dbt, k).ok
                              /\ DiskGet(m, dbt, k).val = saved[k]

\* C9: while a goroutine is inside Insert, Update or Delete of a Table, no
\* other goroutine is inside any access to it, Next and ContainsNext on an
\* iterator returned by Scan included.
C9_WritersAreAlone ==
  \A g, h \in Goroutines :
    (g # h /\ tbl.writer = g) => gor[h].pc = "idle"

\* C10: AllocatePage returns the most recently deallocated page id that has
\* not been handed out again when the free list is not empty, and leaves
\* nextPage as it was; with an empty free list it returns nextPage and
\* increments it.
C10_AllocateReusesLastFreed ==
  lastAlloc.made =>
    IF lastAlloc.free > 0
    THEN /\ lastAlloc.pending # <<>>
         /\ lastAlloc.pageID = lastAlloc.pending[Len(lastAlloc.pending)]
         /\ lastAlloc.after = lastAlloc.before
    ELSE /\ lastAlloc.pageID = lastAlloc.before
         /\ lastAlloc.after = lastAlloc.before + 1

\* An AllocatePage call that found two different page ids in the free list.
C10_Witness ==
  /\ lastAlloc.made
  /\ lastAlloc.free >= 2
  /\ lastAlloc.pending[1] # lastAlloc.pending[Len(lastAlloc.pending)]

\* The keys a node holds, in slot order, and the ascending sequence of a set.
NodeKeys(n) == [p \in 1..n.NumKeys |-> n.Keys[p]]

RECURSIVE Ascending(_)
Ascending(S) == IF S = {} THEN <<>> ELSE <<Min(S)>> \o Ascending(S \ {Min(S)})

\* C19: a Set of a fifth distinct key into a tree whose single leaf holds
\* four keys gives two leaves under a new internal root; the keys of the left
\* leaf followed by those of the right leaf are the five keys in ascending
\* order, the left leaf's Next is the right leaf, which has the old Next.
C19_FifthKeySplitsLeaf ==
  [][\A key \in 1..MaxKey, val \in 1..MaxVal :
       LET old == bt.nodes[bt.root]
           had == {old.Keys[p] : p \in 1..old.NumKeys}
           root == bt'.nodes[bt'.root]
           left == ChildAt(root, 0)
           right == ChildAt(root, 1)
       IN  (/\ IsLeaf(old) /\ old.NumKeys = MaxKeys /\ Cardinality(had) = MaxKeys
            /\ key \notin had
            /\ SetStep(key, val))
           => /\ ~bt'.fault
              /\ Len(bt'.nodes) = 3
              /\ ~IsLeaf(root) /\ root.NumKeys = 1 /\ root.Parent = Nil
              /\ left # Nil /\ right # Nil /\ left # right
              /\ IsLeaf(bt'.nodes[left]) /\ IsLeaf(bt'.nodes[right])
              /\ NodeKeys(bt'.nodes[left]) \o NodeKeys(bt'.nodes[right])
                   = Ascending(had \cup {key})
              /\ bt'.nodes[left].Next = right
              /\ bt'.nodes[right].Next = old.Next]_vars

\* A tree just split by the Set of its fifth key.
C19_Witness ==
  /\ Len(bt.nodes) = 3 /\ dels = 0 /\ Cardinality(DOMAIN kv) = MaxKeys + 1
  /\ bt.size = MaxKeys + 1

\* The nodes reachable from node i through the child links 0..NumKeys.
RECURSIVE Reach(_, _)
Reach(nodes, i) ==
  IF IsLeaf(nodes[i]) THEN {i}
  ELSE {i} \cup UNION {Reach(nodes, ChildAt(nodes[i], c)) :
                         c \in {d \in 0..nodes[i].NumKeys : ChildAt(nodes[i], d) # Nil}}

\* C20: every internal node with n keys has non-nil children at indexes 0..n,
\* each with its Parent field pointing to that node, and every leaf is
\* reachable from the root through those links.
C20_ChildrenWellFormed ==
  ~bt.fault =>
    /\ \A i \in 1..Len(bt.nodes) :
         ~IsLeaf(bt.nodes[i]) =>
           \A c \in 0..bt.nodes[i].NumKeys :
             /\ ChildAt(bt.nodes[i], c) # Nil
             /\ bt.nodes[ChildAt(bt.nodes[i], c)].Parent = i
    /\ \A i \in 1..Len(bt.nodes) :
         IsLeaf(bt.nodes[i]) => i \in Reach(bt.nodes, bt.root)


\* C17: Serialize of any page yields exactly 4096 bytes, and Deserialize of
\* those bytes reproduces every header field (type, reserved byte,
\* dataLength, nextPage, prevPage, checksum) and the whole payload.
C17_SerializeRoundTrip ==
  /\ buf # NoBuf => buf.out.len = 4096
  /\ ret.op = "Deserialize" =>
       /\ ~ret.err
       /\ ret.page.PageType = ret.before.PageType
       /\ ret.page.Reserved = ret.before.Reserved
       /\ ret.page.DataLength = ret.before.DataLength
       /\ ret.page.NextPage = ret.before.NextPage
       /\ ret.page.PrevPage = ret.before.PrevPage
       /\ ret.page.Checksum = ret.before.Checksum
       /\ Bytes(ret.page.Data, 0, PayloadSize) = Bytes(ret.before.Data, 0, PayloadSize)

\* A page with a full payload, every header field at an extreme and the two
\* links different, was serialized and read back.
C17_Witness ==
  /\ ret.op = "Deserialize"
  /\ ByteAt(ret.before.Data, PayloadSize - 1) # 0
  /\ ret.before.PageType = 255 /\ ret.before.Reserved = 255
  /\ ret.before.DataLength = 65535
  /\ ret.before.NextPage = 2147483647 /\ ret.before.PrevPage = InvalidPageID
  /\ ret.before.Checksum = -2147483647

\* C18: SetData with more than 4080 bytes returns the error and leaves the
\* payload and dataLength as they were; with at most 4080 bytes it succeeds,
\* dataLength is the length of the input and GetData returns those bytes.
C18_SetDataBounds ==
  ret.op = "SetData" =>
    IF Len(ret.data) > 4080
    THEN ret.err /\ pg = ret.before
    ELSE ~ret.err /\ pg.DataLength = Len(ret.data) /\ GetData(pg) = ret.data

\* SetData of exactly 4080 bytes succeeded on a page that held other data.
C18_Witness ==
  /\ ret.op = "SetData" /\ ~ret.err /\ Len(ret.data) = 4080
  /\ ret.before.DataLength # 4080

\* C16: for a leaf or internal node with 0..MaxKeys non-nil keys, SerializeNode
\* succeeds and DeserializeNode of its bytes succeeds with the same
\* leaf/internal flag, the same number of keys, the same keys in the same
\* order and, for a leaf, the same values, a nil value read back as empty.
C16_NodeRoundTrip ==
  /\ nret.op = "SerializeNode" => ~nret.err
  /\ nret.op = "DeserializeNode" =>
       /\ ~nret.err
       /\ IsLeaf(nret.node) = IsLeaf(nd)
       /\ nret.node.NumKeys = nd.NumKeys
       /\ \A i \in 0..(nd.NumKeys - 1) :
            /\ KeyAt(nret.node, i) = KeyAt(nd, i)
            /\ IsLeaf(nd) =>
                 ValueAt(nret.node, i)
                   = (IF ValueAt(nd, i) = Nil THEN EmptyBytes ELSE ValueAt(nd, i))

\* A full leaf with an empty key, a nil value and a non-empty value was
\* serialized and read back.
C16_Witness ==
  /\ nret.op = "DeserializeNode"
  /\ IsLeaf(nd) /\ nd.NumKeys = MaxKeys
  /\ \E i, j, k \in 0..(MaxKeys - 1) :
       /\ KeyAt(nd, i) = EmptyBytes
       /\ ValueAt(nd, j) = Nil
       /\ ValueAt(nd, k) \notin {Nil, EmptyBytes}

\* What a store (the file, or stable storage) holds for page id: the page
\* type and data that written.at has for it.
Holds(store, id) ==
  /\ id + 1 <= Len(store)
  /\ LET d == Deserialize(id, store[id + 1])
     IN  /\ ~d.err
         /\ d.page.PageType = written.at[id].PageType
         /\ d.page.DataLength = Len(written.at[id].Data)
         /\ GetData(d.page) = written.at[id].Data

\* ReadPage(id) returns what the latest write call for id wrote, when that
\* call returned nil.
ReadsBack(pm, w) ==
  \A id \in DOMAIN w.at :
    LET r == ReadPage(pm, id)
    IN  /\ ~r.err
        /\ r.page.PageType = w.at[id].PageType
        /\ r.page.DataLength = Len(w.at[id].Data)
        /\ GetData(r.page) = w.at[id].Data

\* C11 as stated: after WritePage(p) returns nil, ReadPage(p.ID) returns the
\* payload, dataLength and page type of p until the next write to that
\* PageID, and a WritePage to one PageID does not change what ReadPage
\* returns for any other PageID.
C11_ReadReturnsWritten ==
  [][/\ m'.pm.open => ReadsBack(m'.pm, written')
     /\ (written'.calls # written.calls /\ written'.op = "WritePage") =>
          \A id \in (0..(MaxPages - 1)) \ {written'.last} :
            ReadPage(m'.pm, id) = ReadPage(m.pm, id)]_vars

\* C11, amended: after WritePage(p) returns nil, ReadPage(p.ID) returns the
\* payload, dataLength and page type of p until the next write to that
\* PageID, and a WritePage to one PageID does not change what ReadPage
\* returns for any other PageID that ReadPage returned a page for before it.
C11_ReadReturnsWrittenInFile ==
  [][/\ m'.pm.open => ReadsBack(m'.pm, written')
     /\ (written'.calls # written.calls /\ written'.op = "WritePage") =>
          \A id \in (0..(MaxPages - 1)) \ {written'.last} :
            ~ReadPage(m.pm, id).err => ReadPage(m'.pm, id) = ReadPage(m.pm, id)]_vars

\* WritePage has just returned nil for one page while another page holds
\* other data from an earlier WritePage.
C11_Witness ==
  /\ m.pm.open /\ written.op = "WritePage"
  /\ \E a, b \in DOMAIN written.at :
       /\ a # b /\ written.last = b
       /\ written.at[a].Data # <<>> /\ written.at[b].Data # <<>>
       /\ written.at[a].Data # written.at[b].Data

\* C12: when WritePage, AllocatePage or DeallocatePage has returned nil, the
\* content is on stable storage: after a crash at any later point the file
\* holds that content at that PageID, unless a later write to the same
\* PageID was started.
C12_WrittenIsDurable ==
  \A id \in DOMAIN written.at :
    /\ Holds(m.pm.stable, id)
    /\ ~m.pm.open => Holds(m.pm.file, id)

\* After a crash that followed two write calls: the file holds the data of a
\* WritePage that returned nil.
C12_Witness ==
  /\ ~m.pm.open /\ opens = 1 /\ written.calls >= 2
  /\ \E id \in DOMAIN written.at : written.at[id].Data # <<>> /\ id # written.last

\* C13: when a page read or write fails during Table.Insert, Update or
\* Delete, the call returns a non-nil error.
C13_FailuresAreReported ==
  (tret.op \in Writers /\ tret.dropped) => tret.err # "nil"

\* C14: Update and Delete on a key that is not in the table return 'key not
\* found' and leave the table as it was; on a key that is in the table (put
\* there by the calls made before, Insert among them) they return nil and
\* the table has the new value for the key, or no longer has the key.
C14_UpdateDeleteByPresence ==
  [][(tret' # tret /\ tret'.op \in {"Update", "Delete"}) =>
       LET t == db.tables[tret'.name]
           before == Contents(m, t, 1..MaxRowKey)
           after == Contents(m', t, 1..MaxRowKey)
       IN  IF tret'.found
           THEN /\ tret'.err = "nil"
                /\ after = (IF tret'.op = "Update"
                            THEN Put(before, tret'.key, tret'.val)
                            ELSE Without(before, tret'.key))
           ELSE /\ tret'.err = "key not found"
                /\ after = before]_vars

\* The names of the tables of the database, and what each table holds.
TableNames(d) == DOMAIN d.tables
Holding(mm, d) == [n \in DOMAIN d.tables |-> Contents(mm, d.tables[n], 1..MaxDBKey)]

\* GetTable and DropTable fail with 'does not exist' exactly when the name
\* is absent, DropTable removes the name, and a call that fails leaves the
\* set of tables and what they hold as they were.
NamesAreASet ==
  LET name == tret'.name
  IN  /\ tret'.op = "GetTable" =>
           /\ tret'.err = (IF name \in TableNames(db) THEN "nil" ELSE "does not exist")
      /\ tret'.op = "DropTable" =>
           /\ tret'.err = (IF name \in TableNames(db) THEN "nil" ELSE "does not exist")
           /\ name \in TableNames(db) => TableNames(db') = TableNames(db) \ {name}
      /\ tret'.op = "CreateTable" =>
           (tret'.err = "already exists" <=> name \in TableNames(db))
      /\ tret'.err # "nil" =>
           /\ TableNames(db') = TableNames(db)
           /\ Holding(m', db') = Holding(m, db)

\* C15 as stated: CreateTable fails with 'already exists' exactly when the
\* name is present and otherwise adds it; GetTable and DropTable fail with
\* 'does not exist' exactly when the name is absent; DropTable removes the
\* name; a failed call leaves the set of tables and their contents unchanged.
C15_NamesAreASet ==
  [][(tret' # tret /\ tret'.op \in {"CreateTable", "GetTable", "DropTable"}) =>
       /\ NamesAreASet
       /\ (tret'.op = "CreateTable" /\ tret'.name \notin TableNames(db)) =>
            /\ tret'.err = "nil"
            /\ TableNames(db') = TableNames(db) \cup {tret'.name}]_vars

\* C15, amended: as stated, but CreateTable of an absent name adds it unless
\* the root page of the new table cannot be written; then CreateTable returns
\* that error and adds nothing.
C15_NamesAreASetUnlessIOFails ==
  [][(tret' # tret /\ tret'.op \in {"CreateTable", "GetTable", "DropTable"}) =>
       /\ NamesAreASet
       /\ (tret'.op = "CreateTable" /\ tret'.name \notin TableNames(db)) =>
            IF m.pm.open /\ m.pm.ioOk /\ m.pm.syncOk
            THEN /\ tret'.err = "nil"
                 /\ TableNames(db') = TableNames(db) \cup {tret'.name}
            ELSE /\ tret'.err \notin {"nil", "already exists"}
                 /\ TableNames(db') = TableNames(db)]_vars

\* DropTable has removed one of two tables, and the other still holds a key.
C15_Witness ==
  /\ tret.op = "DropTable" /\ tret.err = "nil"
  /\ \E n \in TableNames(db) : Holding(m, db)[n] # <<>>

\* C21: after every completed Delete, every node other than the root holds at
\* least MinKeys keys, and an internal root holds at least one key.
C21_DeleteKeepsMinKeys ==
  [][(dels' = dels + 1 /\ ~bt'.fault) =>
       /\ \A i \in Reach(bt'.nodes, bt'.root) \ {bt'.root} :
            bt'.nodes[i].NumKeys >= MinKeys
       /\ ~IsLeaf(bt'.nodes[bt'.root]) => bt'.nodes[bt'.root].NumKeys >= 1]_vars

\* A Set of a new key into a full leaf cuts the MaxKeys + 1 entries at mid:
\* the original leaf keeps the first mid entries, a new leaf gets the rest, and
\* the new leaf's first key is a separator of an internal node, which is the
\* new leaf's parent and holds it just before the pointer to the new leaf
\* unless the insertion fills the old parent, which is then split.
LeafCutAt(mid) ==
  \A key \in Present' \ Present :
    LET leaf == findLeaf(bt, key)
        n == bt.nodes[leaf]
        all == Ascending({n.Keys[p] : p \in 1..n.NumKeys} \cup {key})
        newId == Len(bt.nodes) + 1
    IN  (/\ ~bt.fault /\ IsLeaf(n) /\ n.NumKeys = MaxKeys
         /\ dels' = dels)
        => /\ ~bt'.fault
           /\ Len(bt'.nodes) >= newId
           /\ IsLeaf(bt'.nodes[newId])
           /\ NodeKeys(bt'.nodes[leaf]) = SubSeq(all, 1, mid)
           /\ NodeKeys(bt'.nodes[newId]) = SubSeq(all, mid + 1, MaxKeys + 1)
           /\ \A i \in {leaf, newId} : \A p \in 1..bt'.nodes[i].NumKeys :
                bt'.nodes[i].Values[p] = kv'[bt'.nodes[i].Keys[p]]
           /\ \E q \in 1..Len(bt'.nodes) :
                /\ ~IsLeaf(bt'.nodes[q])
                /\ \E c \in 1..bt'.nodes[q].NumKeys :
                     /\ bt'.nodes[q].Keys[c] = all[mid + 1]
                     /\ (n.Parent = Nil \/ bt.nodes[n.Parent].NumKeys + 1 < MaxKeys)
                          => /\ ChildAt(bt'.nodes[q], c) = newId
                             /\ bt'.nodes[newId].Parent = q

\* C29: a Set of a new key into a full leaf cuts the MaxKeys + 1 entries at
\* ceil((MaxKeys + 1) / 2): the original leaf keeps the first three and the
\* new right leaf gets the last two, whose first key is the separator.
C29_LeafCutAtCeil == [][LeafCutAt((MaxKeys + 2) \div 2)]_vars

\* C29 as the code has it: the cut is at (MaxKeys + 1) / 2 rounded down, so
\* the original leaf keeps the first two entries and the new right leaf gets
\* the last three, whose first key is the separator.
C29_LeafCutAtFloor == [][LeafCutAt((MaxKeys + 1) \div 2)]_vars

\* A leaf has just been split into leaves of two and three keys under a
\* parent that already had a child to its left.
C29_Witness ==
  /\ ~bt.fault /\ Len(bt.nodes) >= 4
  /\ \E i \in 1..Len(bt.nodes) :
       /\ IsLeaf(bt.nodes[i]) /\ bt.nodes[i].NumKeys = (MaxKeys + 1) \div 2
       /\ bt.nodes[i].Next = Len(bt.nodes)
       /\ bt.nodes[Len(bt.nodes)].NumKeys = MaxKeys + 1 - (MaxKeys + 1) \div 2

\* The leftmost leaf: child 0 of each internal node, from node i down.
RECURSIVE Leftmost(_, _)
Leftmost(nodes, i) ==
  IF i = Nil THEN Nil
  ELSE IF IsLeaf(nodes[i]) THEN i
  ELSE Leftmost(nodes, ChildAt(nodes[i], 0))

\* The nodes on the Next chain from node i, at most fuel of them.
RECURSIVE LeafChain(_, _, _)
LeafChain(nodes, i, fuel) ==
  IF i = Nil \/ fuel = 0 THEN <<>>
  ELSE <<i>> \o LeafChain(nodes, nodes[i].Next, fuel - 1)

\* The keys of the nodes of a chain, in chain order.
RECURSIVE ChainKeys(_, _)
ChainKeys(nodes, chain) ==
  IF chain = <<>> THEN <<>>
  ELSE NodeKeys(nodes[Head(chain)]) \o ChainKeys(nodes, Tail(chain))

\* C22: following Next from the leftmost leaf visits every leaf exactly once
\* and reads a strictly ascending key sequence whose set is the set of keys
\* that have been Set and not since Deleted.
C22_LeafChainIsOrderedKeySet ==
  ~bt.fault =>
    LET chain == LeafChain(bt.nodes, Leftmost(bt.nodes, bt.root), Len(bt.nodes) + 1)
        keys == ChainKeys(bt.nodes, chain)
    IN  /\ \A i \in 1..Len(bt.nodes) :
             IsLeaf(bt.nodes[i]) => Cardinality({p \in 1..Len(chain) : chain[p] = i}) = 1
        /\ \A p \in 1..Len(chain) : IsLeaf(bt.nodes[chain[p]])
        /\ \A p \in 1..(Len(keys) - 1) : keys[p] < keys[p + 1]
        /\ {keys[p] : p \in 1..Len(keys)} = Present

\* The keys stored in the subtree of node i (none for a nil child).
SubtreeKeys(nodes, i) ==
  IF i = Nil THEN {}
  ELSE UNION {{nodes[j].Keys[p] : p \in 1..nodes[j].NumKeys} : j \in Reach(nodes, i)}

\* C23: keys are strictly increasing within each node, and for each internal
\* node and each i, every key in the subtree of child i is < keys[i] and every
\* key in the subtree of child i+1 is >= keys[i].
C23_KeysOrderedAndFramed ==
  ~bt.fault =>
    \A j \in 1..Len(bt.nodes) :
      LET n == bt.nodes[j]
      IN  /\ \A p \in 1..(n.NumKeys - 1) : n.Keys[p] < n.Keys[p + 1]
          /\ ~IsLeaf(n) =>
               \A i \in 0..(n.NumKeys - 1) :
                 /\ \A k \in SubtreeKeys(bt.nodes, ChildAt(n, i)) : k < KeyAt(n, i)
                 /\ \A k \in SubtreeKeys(bt.nodes, ChildAt(n, i + 1)) : k >= KeyAt(n, i)

\* An internal node has been split, a key has been deleted since the first
\* Set, and the root's children are internal nodes that hold separators.
C23_Witness ==
  /\ ~bt.fault /\ dels > 0
  /\ ~IsLeaf(bt.nodes[bt.root])
  /\ \A c \in 0..bt.nodes[bt.root].NumKeys :
       LET child == ChildAt(bt.nodes[bt.root], c)
       IN  child # Nil /\ ~IsLeaf(bt.nodes[child]) /\ bt.nodes[child].NumKeys > 0

\* C30: no Set or Delete call on a tree reached by Set and Delete calls
\* faults (Get and FindLarger change no state and are defined on every such
\* tree): every call runs to completion.
C30_NoCallFaults == ~bt.fault

\* Page id exists in the file of pm and is not marked free there.
LivePage(pm, id) ==
  /\ id >= 0 /\ id + 1 <= Len(pm.file)
  /\ LET d == Deserialize(id, pm.file[id + 1])
     IN  ~d.err /\ d.page.PageType # FreePageType

\* The step is an AllocatePage call: it takes an id from the free list or
\* from nextPage.
AllocateStep ==
  /\ m.pm.open /\ m'.pm.open
  /\ \/ m'.pm.nextPage = m.pm.nextPage + 1
     \/ Len(m'.pm.freeList) < Len(m.pm.freeList)

\* C25: after NewPageManager has opened a file that already contains pages,
\* AllocatePage never returns the id of a page that exists in the file and
\* has not been deallocated.
C25_ReopenKeepsLivePages ==
  [][(opens >= 2 /\ AllocateStep) => ~LivePage(m.pm, lastAlloc'.pageID)]_vars

\* After the step the free list holds no id twice and no id the caller
\* holds, and an AllocatePage step returns no id the caller holds.
FreeListExcludesHeld ==
  /\ \A i, j \in 1..Len(m'.pm.freeList) :
       m'.pm.freeList[i] = m'.pm.freeList[j] => i = j
  /\ \A i \in 1..Len(m'.pm.freeList) : m'.pm.freeList[i] \notin held'.ids
  /\ AllocateStep => lastAlloc'.pageID \notin held.ids

\* C26: for any sequence of AllocatePage and DeallocatePage calls, with
\* DeallocatePage given any page id, the free list never holds an id twice
\* and never holds a live id, so that no id is returned by two AllocatePage
\* calls without a DeallocatePage of it in between.
C26_FreeListExcludesHeld == [][FreeListExcludesHeld]_vars

\* C26 for the callers the page manager is written for: the same, as long as
\* every DeallocatePage call was given an id that AllocatePage had returned
\* and that had not been deallocated since.
C26_FreeListExcludesHeldWhenStrict == [][held'.strict => FreeListExcludesHeld]_vars

\* An AllocatePage call has taken one of two ids from the free list while
\* the caller held no id, every DeallocatePage before it having been given
\* a held id.
C26_Witness ==
  /\ held.strict /\ lastAlloc.made /\ lastAlloc.free = 2
  /\ Len(m.pm.freeList) = 1
  /\ held.ids = {lastAlloc.pageID}

C28_FreshPageReadsEmpty ==
  (m.pm.open /\ written.last \in DOMAIN written.at) =>
    LET r == ReadPage(m.pm, written.last)
    IN  /\ written.op = "AllocatePage" =>
             /\ ~r.err
             /\ r.page.PageType = written.at[written.last].PageType
             /\ r.page.DataLength = 0
             /\ GetData(r.page) = <<>>
             /\ \A i \in DOMAIN r.page.Data : r.page.Data[i] = 0
        /\ written.op = "DeallocatePage" =>
             ~r.err /\ r.page.PageType = FreePageType

\* AllocatePage has just handed out an id from the free list whose page had
\* been written with data before it was deallocated.
C28_Witness ==
  /\ m.pm.open /\ written.op = "AllocatePage"
  /\ written.last \in DOMAIN written.at
  /\ written.last \in held.dirty
  /\ lastAlloc.made /\ lastAlloc.free > 0 /\ lastAlloc.pageID = written.last

\* The entries of a node: its keys and values at 0..NumKeys-1.
Entries(n) == [i \in 0..(n.NumKeys - 1) |-> <<KeyAt(n, i), ValueAt(n, i)>>]

\* C24: after every Set or Delete on a DiskBTree, with values of any length,
\* the page in the file of each cached page id decodes to a node with the
\* keys and values of the cached node, and every Get returns the same after
\* the cache is dropped and the node is loaded from the file again.
C24_FileMatchesCache ==
  /\ \A t \in 1..Len(m.trees) : \A pageID \in DOMAIN m.trees[t].cache :
       LET r == ReadPage(m.pm, pageID)
           d == DeserializeNode(GetData(r.page))
       IN  /\ ~r.err /\ ~d.err
           /\ Entries(d.node) = Entries(m.heap[m.trees[t].cache[pageID]])
  /\ dbt # Nil =>
       \A key \in 1..MaxLongKey :
         LET cached == DiskGet(m, dbt, key)
             loaded == DiskGet(DiskClose(m, dbt), dbt, key)
         IN  cached.ok = loaded.ok /\ cached.val = loaded.val

\* C36: DeserializeNode of any byte string returns an error or a node whose
\* NumKeys is the declared key count and at most MaxKeys; it never faults.
C36_DeserializeNeverFaults ==
  nret.op = "DeserializeBytes" =>
    /\ ~nret.fault
    /\ Len(nret.data) < 2 => nret.err
    /\ ~nret.err => nret.node.NumKeys = nret.data[2] /\ nret.node.NumKeys <= MaxKeys

\* The number of bytes the tokens of an encoded node stand for: one byte for
\* the type, four for the key count, four for each length and each link, and
\* one for each byte of a key or a value.
RECURSIVE WireEntries(_, _, _, _, _)
WireEntries(data, offset, i, numKeys, leaf) ==
  IF i >= numKeys THEN 4 * (Len(data) - offset)
  ELSE LET keyLen == data[offset + 1]
           voff == offset + 1 + keyLen
           valLen == data[voff + 1]
       IN  IF leaf
           THEN 4 + keyLen + 4 + valLen
                  + WireEntries(data, voff + 1 + valLen, i + 1, numKeys, leaf)
           ELSE 4 + keyLen + WireEntries(data, voff, i + 1, numKeys, leaf)

WireLength(data) == 1 + 4 + WireEntries(data, 2, 0, data[2], data[1] = 1)

\* C40: for a leaf or internal node with 0..MaxKeys non-nil keys and any
\* values, EstimateNodeSize is the length of what SerializeNode returns.
C40_EstimateIsSerializedLength ==
  nret.op = "EstimateNodeSize" =>
    /\ ~SerializeNode(nd).err
    /\ nret.size = WireLength(SerializeNode(nd).data)

\* The size of a full leaf with an empty key, a nil value and a non-empty
\* value has been estimated.
C40_Witness ==
  /\ nret.op = "EstimateNodeSize"
  /\ IsLeaf(nd) /\ nd.NumKeys = MaxKeys
  /\ \E i, j, k \in 0..(MaxKeys - 1) :
       /\ KeyAt(nd, i) = EmptyBytes
       /\ ValueAt(nd, j) = Nil
       /\ ValueAt(nd, k) \notin {Nil, EmptyBytes}

\* C35: the encoded trailer of a leaf holds the page id of its next leaf,
\* the invalid id when it has none, that of an internal node holds its
\* NumKeys + 1 child page ids, and DeserializeNode restores the links.
C35_LinksRoundTrip ==
  /\ (nret.op = "SerializeNode" /\ ~nret.err /\ IsLeaf(nd) /\ nd.Next = Nil) =>
       nret.data[Len(nret.data)] = InvalidPageID
  /\ (nret.op = "SerializeNode" /\ ~nret.err /\ ~IsLeaf(nd)) =>
       Len(nret.data) >= nd.NumKeys + 1
  /\ nret.op = "DeserializeNode" =>
       /\ nret.node.Next = nd.Next
       /\ nret.node.Children = nd.Children

\* C34: a call of AllocatePage or DeallocatePage that returns the error of its
\* page write leaves nextPage and the free list as they were before the call.
C34_FailedCallKeepsAllocator ==
  [][(/\ written'.op \in {"AllocatePage", "DeallocatePage"}
      /\ written'.last \notin DOMAIN written'.at)
       => /\ m'.pm.nextPage = m.pm.nextPage
          /\ m'.pm.freeList = m.pm.freeList]_vars

\* C33: when DropTable removes a table, the page of the root of its tree is on
\* the free list of the page manager afterwards, so the next AllocatePage
\* takes an id of the dropped table and issues no new one.
C33_DropTableFreesPages ==
  [][(/\ tret'.op = "DropTable" /\ tret'.err = "nil"
      /\ tret'.name \in DOMAIN db.tables
      /\ tret'.name \notin DOMAIN db'.tables)
       => /\ \E i \in 1..Len(m'.pm.freeList) :
               m'.pm.freeList[i] = m.trees[db.tables[tret'.name]].rootID
          /\ AllocatePage(m'.pm, BTreeLeafType).pm.nextPage = m'.pm.nextPage]_vars

\* What Scan(from) hands out for the table t: the position of its iterator.
ScanStart(mm, t, K) == [from \in K |-> DiskFindLarger(mm, t, from).it]

CommonLock(g, h) ==
  \E l \in locks, k \in locks :
    l.g = g /\ k.g = h /\ l.kind = k.kind /\ l.t = k.t

\* C31: when an Insert, Update or Delete on one table is about to write the
\* map nodeToPageID while an Insert, Update, Delete or Scan on another table
\* is about to read or write it, the two goroutines hold a lock in common:
\* no two calls on different tables use the map at the same time, one writing.
C31_TablesShareNoUnlockedMap ==
  \A g, h \in Goroutines :
    (/\ g # h
     /\ gor[g].pc = "setNodePageID" /\ AtMap(h)
     /\ gor[g].op \in Writers /\ gor[h].op \in Writers \cup {"Scan"}
     /\ gor[g].t # gor[h].t)
      => CommonLock(g, h)

\* db.mu comes before every t.mu, and every t.mu before pm.mu.
LockRank(kind) == CASE kind = "db" -> 1 [] kind = "table" -> 2 [] kind = "pm" -> 3

\* C32: a goroutine takes a mutex only when every mutex it holds comes
\* earlier in the order db.mu, t.mu, pm.mu; while calls are under way some
\* goroutine can take a step; and every call returns in the end.
C32_NoDeadlockEveryCallReturns ==
  /\ [][\A l \in locks' \ locks : \A h \in locks :
          h.g = l.g => LockRank(h.kind) < LockRank(l.kind)]_vars
  /\ []((\E g \in Goroutines : gor[g].pc \notin {"idle", "fatal"}) /\ ~Crashed
          => \E g \in Goroutines : ENABLED GoRun(g))
  /\ \A g \in Goroutines : (gor[g].pc # "idle") ~> (gor[g].pc = "idle")

C39_NoTempFileRemains ==
  fs.pc = "returned" => fs.tmp \notin DOMAIN fs.dir

====
